---- MODULE Spec2Model ----
(***************************************************************************)
(* Sentinel-Agent: token-bucket rate limiter (rateLimiter.js), dynamic     *)
(* risk calculation (risk.js) and signal generation (strategy.js).         *)
(*                                                                         *)
(* Units.  Time is in milliseconds (Date.now()).  Token balances are kept  *)
(* in thousandths of a token, so that elapsed_ms / 1000 * refillRate is an *)
(* exact integer; costs are whole tokens.                                  *)
(***************************************************************************)
EXTENDS Integers, Sequences, FiniteSets, TLC

\* ------------------------------------------------------------------------
\* Bounds of the model
\* ------------------------------------------------------------------------
\* the limiter under test is RateLimiter(maxTokens, refillRate)
maxTokens == 2
refillRate == 5
\* the clock stops at MaxTime
MaxTime == 400
\* the window account is kept within -MaxRefund .. MaxGranted
MaxRefund == 1
MaxGranted == 4
\* longest candle sequence handed to calculateDynamicRisk
MaxRiskCandles == 6
\* longest candle sequence handed to analyzeMarket
MaxCandles == 22
\* number of calls made on the MEXCRateLimiter
MaxCalls == 7
\* longest candle array handed to runBacktest
MaxBacktestCandles == 24

\* ------------------------------------------------------------------------
\* Generic helpers
\* ------------------------------------------------------------------------
Min(a, b) == IF a <= b THEN a ELSE b
Max(a, b) == IF a >= b THEN a ELSE b
Abs(a) == IF a < 0 THEN -a ELSE a
\* Math.ceil(n / d) for d > 0
CeilDiv(n, d) == -((-n) \div d)

\* JavaScript's null, NaN and Infinity where a number is expected: encoded
\* as integers that no number of the model reaches
Null == -2000000001
NaN == -2000000002
Infinity == 2000000003
IsNum(x) == x \notin {Null, NaN, Infinity}
\* !x for a number, NaN or null
Falsy(x) == x = Null \/ x = NaN \/ x = 0

\* n / d for d > 0, rounded to the nearest integer (a half rounds up)
RoundDiv(n, d) == IF 2 * (n % d) >= d THEN (n \div d) + 1 ELSE n \div d

RECURSIVE SumSeq(_)
SumSeq(s) == IF s = << >> THEN 0 ELSE Head(s) + SumSeq(Tail(s))

\* Decimal long division: <<q, r>> with k more digits of q still to produce
RECURSIVE LongDiv(_, _, _, _)
LongDiv(q, r, c, k) ==
  IF k = 0 THEN <<q, r>>
  ELSE LongDiv((q * 10) + ((r * 10) \div c), (r * 10) % c, c, k - 1)

\* (a / c).toFixed(k) for a >= 0, c > 0, as an integer count of 10^-k
FixDiv(a, c, k) ==
  LET qr == LongDiv(a \div c, a % c, c, k)
  IN IF 2 * qr[2] >= c THEN qr[1] + 1 ELSE qr[1]

\* ========================================================================
\* RateLimiter
\* ========================================================================
MinRetryMs == 100

Waiters == {"w1", "w2"}
\* cost arguments: negative, zero, ordinary, and one above the capacity
Costs == -1..(maxTokens + 1)
Elapses == {100, 300}

VARIABLES
  now,         \* Date.now()
  tokens,      \* this.tokens, in thousandths of a token
  lastRefill,  \* this.lastRefill
  wpc,         \* per waiter: "idle" | "waiting" (timer armed) | "resolved"
  wcost,       \* per waiter: cost argument of its pending waitForToken
  wdue,        \* per waiter: instant at which its setTimeout is due
  lastOp,      \* the last call on the limiter: operation, argument, result
  winStart,    \* observation window: its first instant, -1 before it opens
  winGranted,  \* observation window: total cost of successful acquisitions
  winReset     \* observation window: reset() was called inside it

rlVars == <<now, tokens, lastRefill, wpc, wcost, wdue, lastOp,
            winStart, winGranted, winReset>>

NoOp == [op |-> "none", cost |-> 0, pre |-> 0, ret |-> 0]

\* a refill that forgets the cap
RefilledUncapped(tok, last, t) == tok + (t - last) * refillRate

\* refillTokens(): the balance after a refill at instant t
Refilled(tok, last, t) == Min(maxTokens * 1000, tok + (t - last) * refillRate)

\* a test that asks for no more than the bucket can hold
CanConsumeClamped(tok, cost) == tok >= Min(cost, maxTokens) * 1000

\* tryConsume(cost) on a refilled balance: success flag and new balance
CanConsume(tok, cost) == tok >= cost * 1000
\* a refused consume that still takes what is there
ConsumedPartial(tok, cost) == IF CanConsume(tok, cost) THEN tok - cost * 1000 ELSE 0

Consumed(tok, cost) == IF CanConsume(tok, cost) THEN tok - cost * 1000 ELSE tok

\* a delay without the floor
RetryDelayUnfloored(tok, cost) == CeilDiv(cost * 1000 - tok, refillRate)

\* waitForToken: delay of the next attempt after a failed one,
\* Math.max(waitTime, 100)
RetryDelay(tok, cost) == Max(CeilDiv(cost * 1000 - tok, refillRate), MinRetryMs)

RLInit ==
  /\ now = 0
  /\ tokens = maxTokens * 1000
  /\ lastRefill = 0
  /\ wpc = [w \in Waiters |-> "idle"]
  /\ wcost = [w \in Waiters |-> 0]
  /\ wdue = [w \in Waiters |-> 0]
  /\ lastOp = NoOp
  /\ winStart = -1
  /\ winGranted = 0
  /\ winReset = FALSE

\* ---- the operations, on the limiter's own state -------------------------

\* time passes between calls
Tick(dt) ==
  /\ now + dt <= MaxTime
  /\ now' = now + dt
  /\ UNCHANGED <<tokens, lastRefill, wpc, wcost, wdue>>

refillTokens ==
  /\ tokens' = Refilled(tokens, lastRefill, now)
  /\ lastRefill' = now
  /\ UNCHANGED <<now, wpc, wcost, wdue>>

\* tryConsume(cost) returning ret
tryConsume(cost, ret) ==
  /\ ret = CanConsume(Refilled(tokens, lastRefill, now), cost)
  /\ tokens' = Consumed(Refilled(tokens, lastRefill, now), cost)
  /\ lastRefill' = now
  /\ UNCHANGED <<now, wpc, wcost, wdue>>

\* an attempt that keeps what the bucket holds when it fails
attemptCharging(w, cost, ok) ==
  LET pre == Refilled(tokens, lastRefill, now)
  IN /\ ok = CanConsume(pre, cost)
     /\ tokens' = IF ok THEN Consumed(pre, cost) ELSE 0
     /\ lastRefill' = now
     /\ wcost' = [wcost EXCEPT ![w] = cost]
     /\ wpc' = [wpc EXCEPT ![w] = IF ok THEN "resolved" ELSE "waiting"]
     /\ wdue' = [wdue EXCEPT ![w] = IF ok THEN 0 ELSE now + RetryDelay(pre, cost)]
     /\ UNCHANGED now

\* one run of the closure `attempt` of waitForToken(cost) for waiter w;
\* ok is what its call of tryConsume returned
attempt(w, cost, ok) ==
  LET pre == Refilled(tokens, lastRefill, now)
  IN /\ ok = CanConsume(pre, cost)
     /\ tokens' = Consumed(pre, cost)
     /\ lastRefill' = now
     /\ wcost' = [wcost EXCEPT ![w] = cost]
     /\ wpc' = [wpc EXCEPT ![w] = IF ok THEN "resolved" ELSE "waiting"]
     /\ wdue' = [wdue EXCEPT ![w] = IF ok THEN 0 ELSE now + RetryDelay(pre, cost)]
     /\ UNCHANGED now

\* waitForToken(cost): the first attempt runs synchronously inside the call
waitForToken(w, cost, ok) ==
  /\ wpc[w] = "idle"
  /\ attempt(w, cost, ok)

\* the timer armed by a failed attempt fires (at its due time or later)
retry(w, ok) ==
  /\ wpc[w] = "waiting"
  /\ now >= wdue[w]
  /\ attempt(w, wcost[w], ok)

\* a caller that continues without awaiting the promise
resumeEarly(w) ==
  /\ wpc[w] \in {"waiting", "resolved"}
  /\ wpc' = [wpc EXCEPT ![w] = "idle"]
  /\ wcost' = [wcost EXCEPT ![w] = 0]
  /\ UNCHANGED <<now, tokens, lastRefill, wdue>>

\* the awaiting caller continues after its promise resolved
resume(w) ==
  /\ wpc[w] = "resolved"
  /\ wpc' = [wpc EXCEPT ![w] = "idle"]
  /\ wcost' = [wcost EXCEPT ![w] = 0]
  /\ UNCHANGED <<now, tokens, lastRefill, wdue>>

\* getAvailableTokens() returning ret
getAvailableTokens(ret) ==
  /\ tokens' = Refilled(tokens, lastRefill, now)
  /\ ret = tokens' \div 1000
  /\ lastRefill' = now
  /\ UNCHANGED <<now, wpc, wcost, wdue>>

\* reset(): pending waitForToken timers are not cancelled
reset ==
  /\ tokens' = maxTokens * 1000
  /\ lastRefill' = now
  /\ UNCHANGED <<now, wpc, wcost, wdue>>

\* ---- Spec: the operations, with the last call recorded in lastOp --------

winVars == <<winStart, winGranted, winReset>>

\* the record of a call: the balance a refill at this instant must give
\* (min(capacity, tokens + elapsed seconds * rate)), and what the call returned
Called(op, cost, ret) ==
  lastOp' = [op |-> op, cost |-> cost, ret |-> ret,
             pre |-> Min(maxTokens * 1000,
                         tokens + ((now - lastRefill) * refillRate))]

Advance ==
  \E dt \in Elapses : Tick(dt) /\ UNCHANGED lastOp /\ UNCHANGED winVars

RefillTokens ==
  refillTokens /\ Called("refillTokens", 0, 0) /\ UNCHANGED winVars

TryConsume ==
  \E cost \in Costs, ret \in BOOLEAN :
    /\ tryConsume(cost, ret)
    /\ Called("tryConsume", cost, ret)
    /\ UNCHANGED winVars

WaitForToken ==
  \E w \in Waiters, cost \in Costs, ok \in BOOLEAN :
    /\ waitForToken(w, cost, ok)
    /\ Called("waitForToken", cost, ok)
    /\ UNCHANGED winVars

Retry ==
  \E w \in Waiters, ok \in BOOLEAN :
    /\ retry(w, ok)
    /\ Called("waitForToken", wcost[w], ok)
    /\ UNCHANGED winVars

Resume ==
  \E w \in Waiters : resume(w) /\ UNCHANGED lastOp /\ UNCHANGED winVars

GetAvailableTokens ==
  \E ret \in 0..(maxTokens + 1) :
    /\ getAvailableTokens(ret)
    /\ Called("getAvailableTokens", 0, ret)
    /\ UNCHANGED winVars

Reset ==
  reset /\ Called("reset", 0, 0) /\ UNCHANGED winVars

NextOps ==
  \/ Advance
  \/ RefillTokens
  \/ TryConsume
  \/ WaitForToken
  \/ Retry
  \/ Resume
  \/ GetAvailableTokens
  \/ Reset


\* ---- SpecWin: the operations, with the grants of a window accounted -----

\* a successful acquisition of `cost` adds to the account of the window
Account(cost, ok) ==
  /\ winGranted' = IF winStart >= 0 /\ ok THEN winGranted + cost ELSE winGranted
  /\ winGranted' \in -MaxRefund..MaxGranted
  /\ UNCHANGED <<winStart, winReset, lastOp>>

WinAdvance ==
  \E dt \in Elapses : Tick(dt) /\ UNCHANGED lastOp /\ UNCHANGED winVars

WinRefillTokens ==
  refillTokens /\ UNCHANGED lastOp /\ UNCHANGED winVars

WinTryConsume ==
  \E cost \in Costs, ok \in BOOLEAN : tryConsume(cost, ok) /\ Account(cost, ok)

WinWaitForToken ==
  \E w \in Waiters, cost \in Costs, ok \in BOOLEAN :
    waitForToken(w, cost, ok) /\ Account(cost, ok)

WinRetry ==
  \E w \in Waiters, ok \in BOOLEAN : retry(w, ok) /\ Account(wcost[w], ok)

WinResume ==
  \E w \in Waiters : resume(w) /\ UNCHANGED lastOp /\ UNCHANGED winVars

WinReset ==
  /\ reset
  /\ winReset' = (winStart >= 0)
  /\ UNCHANGED <<winStart, winGranted, lastOp>>

\* an observer opens the window at the current instant
WinStart ==
  /\ winStart = -1
  /\ winStart' = now
  /\ UNCHANGED <<winGranted, winReset>>
  /\ UNCHANGED <<now, tokens, lastRefill, wpc, wcost, wdue, lastOp>>

NextWin ==
  \/ WinAdvance
  \/ WinRefillTokens
  \/ WinTryConsume
  \/ WinWaitForToken
  \/ WinRetry
  \/ WinResume
  \/ WinReset
  \/ WinStart


\* ---- SpecRetry: waiters retrying while time passes in short steps --------

\* the time between two events: shorter than, and equal to, the retry floor
RetryElapses == {50, MinRetryMs}
\* the observed time: long enough for a waiter's third attempt
RetryHorizon == 3 * MinRetryMs

RetryAdvance ==
  \E dt \in RetryElapses :
    /\ now + dt <= RetryHorizon
    /\ Tick(dt)
    /\ UNCHANGED lastOp
    /\ UNCHANGED winVars

NextRetry ==
  \/ RetryAdvance
  \/ TryConsume
  \/ WaitForToken
  \/ Retry
  \/ Resume

\* ---- SpecExec: execute(fn, cost) ----------------------------------------

\* what fn does when it is invoked: it returns a value, or it throws
FnOutcomes == {"value1", "value2", "thrown"}

VARIABLES
  exec    \* per waiter: its execute(fn, cost) call

execVars == <<exec>>

\* no execute call
NoExec == [pc |-> "none", cost |-> 0, debited |-> 0, invoked |-> 0,
           fnOutcome |-> "none", outcome |-> "none"]

ExecInit == exec = [w \in Waiters |-> NoExec]

\* what the attempt made in this step takes from the bucket: the balance a
\* refill at this instant gives, less the balance the attempt leaves
Debit == Min(maxTokens * 1000, tokens + ((now - lastRefill) * refillRate)) - tokens'

\* execute(fn, cost) up to its first await: waitForToken(cost) is called
Execute ==
  \E w \in Waiters, cost \in Costs, ok \in BOOLEAN :
    /\ exec[w].pc = "none"
    /\ waitForToken(w, cost, ok)
    /\ exec' = [exec EXCEPT ![w] = [NoExec EXCEPT !.pc = "pending", !.cost = cost,
                                                   !.debited = Debit]]

\* the timer of a pending acquisition fires
ExecRetry ==
  \E w \in Waiters, ok \in BOOLEAN :
    /\ exec[w].pc = "pending"
    /\ retry(w, ok)
    /\ exec' = [exec EXCEPT ![w].debited = exec[w].debited + Debit]

\* execute continues after `await this.waitForToken(cost)` and calls fn()
ExecInvoke ==
  \E w \in Waiters :
    /\ exec[w].pc = "pending"
    /\ resume(w)
    /\ exec' = [exec EXCEPT ![w].pc = "running",
                            ![w].invoked = exec[w].invoked + 1]

\* fn settles, and `return await fn()` settles execute the same way
ExecReturn ==
  \E w \in Waiters, out \in FnOutcomes :
    /\ exec[w].pc = "running"
    /\ exec' = [exec EXCEPT ![w].pc = "settled",
                            ![w].fnOutcome = out,
                            ![w].outcome = out]
    /\ UNCHANGED <<now, tokens, lastRefill, wpc, wcost, wdue>>

\* the caller of execute has taken its outcome
ExecDone ==
  \E w \in Waiters :
    /\ exec[w].pc = "settled"
    /\ exec' = [exec EXCEPT ![w] = NoExec]
    /\ UNCHANGED <<now, tokens, lastRefill, wpc, wcost, wdue>>

\* another caller uses the limiter directly
ExecTryConsume ==
  \E cost \in Costs, ret \in BOOLEAN : tryConsume(cost, ret) /\ UNCHANGED exec

ExecAdvance ==
  \E dt \in Elapses : Tick(dt) /\ UNCHANGED exec

NextExec ==
  \/ Execute
  \/ ExecRetry
  \/ ExecInvoke
  \/ ExecReturn
  \/ ExecDone
  \/ ExecTryConsume
  \/ ExecAdvance


\* ---- SpecLive: a single caller of the limiter -----------------------------

LiveCaller == "w1"
\* the costs of the single caller: 0 < cost <= maxTokens
LiveCosts == 1..maxTokens
\* calls start up to MaxTime; time is observed for the longest wait after it
\* (an empty bucket refilled to the capacity) and one more step
LiveHorizon == MaxTime + CeilDiv(maxTokens * 1000, refillRate) + 300

VARIABLE
  live   \* the pending waitForToken of the caller: tokens debited, attempts run

liveVars == <<live>>
NoLive == [debited |-> 0, attempts |-> 0]
LiveInit == live = NoLive

LiveAdvance ==
  \E dt \in Elapses :
    /\ now + dt <= LiveHorizon
    /\ now' = now + dt
    /\ UNCHANGED <<tokens, lastRefill, wpc, wcost, wdue, live>>

\* the caller uses tryConsume between its waits
LiveTryConsume ==
  \E cost \in LiveCosts, ret \in BOOLEAN :
    /\ wpc[LiveCaller] = "idle"
    /\ tryConsume(cost, ret)
    /\ UNCHANGED live

LiveWaitForToken ==
  \E cost \in LiveCosts, ok \in BOOLEAN :
    /\ now <= MaxTime
    /\ waitForToken(LiveCaller, cost, ok)
    /\ live' = [debited |-> Debit, attempts |-> 1]

LiveRetry ==
  \E ok \in BOOLEAN :
    /\ retry(LiveCaller, ok)
    /\ live' = [debited |-> live.debited + Debit, attempts |-> live.attempts + 1]

LiveResume ==
  /\ resume(LiveCaller)
  /\ live' = NoLive

NextLive ==
  \/ LiveAdvance
  \/ LiveTryConsume
  \/ LiveWaitForToken
  \/ LiveRetry
  \/ LiveResume

\* ========================================================================
\* MEXCRateLimiter
\* ========================================================================
\* Two RateLimiter buckets, one per dimension; every call of wait(endpoint)
\* starts a waitForToken(weight) on each and resolves when both have resolved.

BucketNames == {"ip", "uid"}
Capacity == [ip |-> 60, uid |-> 100]
Rate == [ip |-> 15, uid |-> 20]

\* the literal `weights` of wait()
Weights == [klines |-> 1, depth |-> 1, ticker |-> 1, order |-> 1,
            account |-> 10, default |-> 1]
\* names every object literal inherits from Object.prototype: weights[name]
\* is a function (or an object), which is truthy and compares as NaN
ObjectPrototypeNames == {"constructor", "toString", "valueOf", "hasOwnProperty"}

\* weights[endpoint] || weights.default
WeightOf(endpoint) ==
  IF endpoint \in DOMAIN Weights THEN Weights[endpoint]
  ELSE IF endpoint \in ObjectPrototypeNames THEN NaN
  ELSE Weights["default"]

Callers == {"c1", "c2"}
Endpoints == {"account", "positions", "constructor"}
CallKinds == {"wait", "execute"}
\* time that passes between two steps of the callers
MexcElapses == {200}

VARIABLES
  mTokens,   \* per bucket: this.tokens, in thousandths of a token
  mLast,     \* per bucket: this.lastRefill
  mcall,     \* per caller: its pending wait(endpoint) or execute(fn, endpoint)
  mCalls     \* number of calls made so far

mexcVars == <<mTokens, mLast, mcall, mCalls>>

\* no call in progress
IdleCall ==
  [pc |-> "idle", kind |-> "none", endpoint |-> "none", weight |-> 0,
   granted |-> [b \in BucketNames |-> FALSE],
   due |-> [b \in BucketNames |-> 0],
   debited |-> [b \in BucketNames |-> 0],
   at |-> [b \in BucketNames |-> -1],
   resolvedAt |-> -1]

MexcInit ==
  /\ mTokens = [b \in BucketNames |-> Capacity[b] * 1000]
  /\ mLast = [b \in BucketNames |-> 0]
  /\ mcall = [c \in Callers |-> IdleCall]
  /\ mCalls = 0

\* refillTokens() of bucket b at instant t
BucketRefilled(b, tok, last, t) ==
  Min(Capacity[b] * 1000, tok + ((t - last) * Rate[b]))

\* this.tokens >= cost (false when cost is not a number)
BucketCanConsume(tok, cost) == IsNum(cost) /\ tok >= cost * 1000

\* setTimeout(attempt, Math.max(waitTime, 100)); a NaN delay is 1 ms
BucketRetryDelay(b, tok, cost) ==
  IF IsNum(cost) THEN Max(CeilDiv((cost * 1000) - tok, Rate[b]), MinRetryMs) ELSE 1

\* the state of the buckets and of a call after one run of `attempt` of
\* the call's waitForToken on bucket b
AttemptTokens(b, tok, last, cost) ==
  LET pre == BucketRefilled(b, tok, last, now)
  IN IF BucketCanConsume(pre, cost) THEN pre - (cost * 1000) ELSE pre

AttemptCall(b, call, tok, last) ==
  LET pre == BucketRefilled(b, tok, last, now)
      ok == BucketCanConsume(pre, call.weight)
  IN [call EXCEPT
        !.granted[b] = ok,
        !.due[b] = IF ok THEN 0 ELSE now + BucketRetryDelay(b, pre, call.weight),
        !.debited[b] = call.debited[b] + (pre - AttemptTokens(b, tok, last, call.weight)),
        !.at[b] = IF ok THEN now ELSE -1]

\* Promise.all resolves once both waitForToken promises have
Settled(call) ==
  IF \A b \in BucketNames : call.granted[b]
  THEN [call EXCEPT !.pc = "resolved", !.resolvedAt = now]
  ELSE [call EXCEPT !.pc = "waiting"]

\* a wait that asks the UID bucket only once the IP bucket has granted
MexcCallSequential(c, kind, endpoint) ==
  LET start == [IdleCall EXCEPT !.kind = kind, !.endpoint = endpoint,
                                !.weight = WeightOf(endpoint)]
      afterIp == AttemptCall("ip", start, mTokens["ip"], mLast["ip"])
      afterUid == IF afterIp.granted["ip"]
                  THEN AttemptCall("uid", afterIp, mTokens["uid"], mLast["uid"])
                  ELSE afterIp
  IN /\ mcall[c].pc = "idle"
     /\ mCalls < MaxCalls
     /\ mCalls' = mCalls + 1
     /\ mTokens' = [b \in BucketNames |->
                      IF b = "ip" \/ afterIp.granted["ip"]
                      THEN AttemptTokens(b, mTokens[b], mLast[b], start.weight)
                      ELSE mTokens[b]]
     /\ mLast' = [b \in BucketNames |->
                    IF b = "ip" \/ afterIp.granted["ip"] THEN now ELSE mLast[b]]
     /\ mcall' = [mcall EXCEPT ![c] = Settled(afterUid)]
     /\ UNCHANGED now

\* wait(endpoint), or execute(fn, endpoint) up to its await: the weight is
\* looked up and the first attempt on each bucket runs inside the call
MexcCall(c, kind, endpoint) ==
  LET start == [IdleCall EXCEPT !.kind = kind, !.endpoint = endpoint,
                                !.weight = WeightOf(endpoint)]
      afterIp == AttemptCall("ip", start, mTokens["ip"], mLast["ip"])
      afterUid == AttemptCall("uid", afterIp, mTokens["uid"], mLast["uid"])
  IN /\ mcall[c].pc = "idle"
     /\ mCalls < MaxCalls
     /\ mCalls' = mCalls + 1
     /\ mTokens' = [b \in BucketNames |->
                      AttemptTokens(b, mTokens[b], mLast[b], start.weight)]
     /\ mLast' = [b \in BucketNames |-> now]
     /\ mcall' = [mcall EXCEPT ![c] = Settled(afterUid)]
     /\ UNCHANGED now

\* a timer that keeps firing after its bucket has granted
MexcRetryAgain(c, b) ==
  /\ mcall[c].pc = "waiting"
  /\ now >= mcall[c].due[b]
  /\ mTokens' = [mTokens EXCEPT
                   ![b] = AttemptTokens(b, mTokens[b], mLast[b], mcall[c].weight)]
  /\ mLast' = [mLast EXCEPT ![b] = now]
  /\ mcall' = [mcall EXCEPT
                 ![c] = Settled(AttemptCall(b, mcall[c], mTokens[b], mLast[b]))]
  /\ UNCHANGED <<now, mCalls>>

\* the timer of a failed attempt on bucket b fires
MexcRetry(c, b) ==
  /\ mcall[c].pc = "waiting"
  /\ ~mcall[c].granted[b]
  /\ now >= mcall[c].due[b]
  /\ mTokens' = [mTokens EXCEPT
                   ![b] = AttemptTokens(b, mTokens[b], mLast[b], mcall[c].weight)]
  /\ mLast' = [mLast EXCEPT ![b] = now]
  /\ mcall' = [mcall EXCEPT
                 ![c] = Settled(AttemptCall(b, mcall[c], mTokens[b], mLast[b]))]
  /\ UNCHANGED <<now, mCalls>>

\* the caller continues after wait() resolved: wait returns, execute calls fn
MexcResume(c) ==
  /\ mcall[c].pc = "resolved"
  /\ mcall' = [mcall EXCEPT
                 ![c] = IF mcall[c].kind = "execute"
                        THEN [mcall[c] EXCEPT !.pc = "running"]
                        ELSE IdleCall]
  /\ UNCHANGED <<now, mTokens, mLast, mCalls>>

\* fn returns and execute returns its result
MexcReturn(c) ==
  /\ mcall[c].pc = "running"
  /\ mcall' = [mcall EXCEPT ![c] = IdleCall]
  /\ UNCHANGED <<now, mTokens, mLast, mCalls>>

\* getStatus(): getAvailableTokens() refills each bucket
MexcGetStatus ==
  /\ mTokens' = [b \in BucketNames |-> BucketRefilled(b, mTokens[b], mLast[b], now)]
  /\ mLast' = [b \in BucketNames |-> now]
  /\ UNCHANGED <<now, mcall, mCalls>>

\* reset(): both buckets are full again; pending timers are not cancelled
MexcReset ==
  /\ mTokens' = [b \in BucketNames |-> Capacity[b] * 1000]
  /\ mLast' = [b \in BucketNames |-> now]
  /\ UNCHANGED <<now, mcall, mCalls>>

MexcAdvance ==
  \E dt \in MexcElapses :
    /\ now + dt <= MaxTime
    /\ now' = now + dt
    /\ UNCHANGED mexcVars

NextMexc ==
  \/ MexcAdvance
  \/ \E c \in Callers, kind \in CallKinds, endpoint \in Endpoints :
       MexcCall(c, kind, endpoint)
  \/ \E c \in Callers, b \in BucketNames : MexcRetry(c, b)
  \/ \E c \in Callers : MexcResume(c)
  \/ \E c \in Callers : MexcReturn(c)
  \/ MexcGetStatus
  \/ MexcReset


\* ========================================================================
\* DelayRateLimiter
\* ========================================================================
requestsPerSecond == 5
\* this.minDelay, in ms
minDelay == 1000 \div requestsPerSecond
\* this.lastRequest = 0 refers to 1970: any instant at least minDelay before
\* the construction of the limiter (instant 0 of the model) behaves alike
LongAgo == -1000000
DelayElapses == {50, 100}

VARIABLES
  lastRequest,  \* this.lastRequest
  dpc,          \* per caller: "idle" | "sleeping" (inside wait(), timer armed)
  ddue,         \* per caller: instant at which its setTimeout is due
  dDone         \* the instants of the last two completions of wait()

delayVars == <<lastRequest, dpc, ddue, dDone>>

DelayInit ==
  /\ lastRequest = LongAgo
  /\ dpc = [c \in Callers |-> "idle"]
  /\ ddue = [c \in Callers |-> 0]
  /\ dDone = [count |-> 0, prev |-> LongAgo, last |-> LongAgo]

\* a wait() completes now
Completed ==
  dDone' = [count |-> Min(dDone.count + 1, 2), prev |-> dDone.last, last |-> now]

\* wait(): returns at once when minDelay has passed since lastRequest, else
\* sleeps for the remainder
DelayWait(c) ==
  /\ dpc[c] = "idle"
  /\ IF now - lastRequest < minDelay
     THEN /\ dpc' = [dpc EXCEPT ![c] = "sleeping"]
          /\ ddue' = [ddue EXCEPT ![c] = now + (minDelay - (now - lastRequest))]
          /\ UNCHANGED <<lastRequest, dDone>>
     ELSE /\ lastRequest' = now
          /\ Completed
          /\ UNCHANGED <<dpc, ddue>>
  /\ UNCHANGED now

\* the timer of a sleeping wait() fires (at its due time or later): the call
\* sets lastRequest and completes
DelayWake(c) ==
  /\ dpc[c] = "sleeping"
  /\ now >= ddue[c]
  /\ lastRequest' = now
  /\ Completed
  /\ dpc' = [dpc EXCEPT ![c] = "idle"]
  /\ ddue' = [ddue EXCEPT ![c] = 0]
  /\ UNCHANGED now

DelayAdvance ==
  \E dt \in DelayElapses :
    /\ now + dt <= MaxTime
    /\ now' = now + dt
    /\ UNCHANGED delayVars

NextDelay ==
  \/ \E c \in Callers : DelayWait(c)
  \/ \E c \in Callers : DelayWake(c)
  \/ DelayAdvance




\* ========================================================================
\* Risk management (risk.js)
\* ========================================================================
\* Prices are integers counting 10^-8; candle and entry prices have five
\* decimals, so that x * 0.995 and x * 1.005 are exact.  Results carry the
\* precision toFixed gives them: prices rounded to 10^-6, quantity in 10^-4,
\* USDT amounts and percentages in 10^-2, the ratio in 10^-2.

\* the candles handed to calculateDynamicRisk
CandleShapes ==
  { [close |-> 49000000, low |-> 48000000, high |-> 50000000],
    [close |-> 51000000, low |-> 50000000, high |-> 52000000],
    [close |-> 50000000, low |-> 49123000, high |-> 50877000] }

Prices == {49000000, 49750000, 50250000, 51000000}
\* signal.currentPrice: a price, 0, or missing (parseFloat gave NaN)
CurrentPrices == Prices \cup {0, NaN}
\* the entryPrice argument: absent, 0, negative, or a price
EntryArgs == Prices \cup {Null, 0, -49000000}
SignalKinds == {"BUY", "SELL", "HOLD"}
\* the signal argument: null or a signal object
NoSignal == [signal |-> "null", currentPrice |-> Null]
SignalArgs == {NoSignal} \cup [signal : SignalKinds, currentPrice : CurrentPrices]
PositionSizes == {100}

VARIABLES
  candles,    \* the caller's candle history (oldest first)
  riskIn,     \* arguments of the last calculateDynamicRisk call
  riskOut     \* what it returned, or the error it threw

riskVars == <<candles, riskIn, riskOut>>

None == [kind |-> "none"]
Thrown(msg) == [kind |-> "error", error |-> msg]
InsufficientData == "Invalid signal or insufficient candle data (need at least 5 candles)"
InvalidEntry == "Invalid entry price"

\* x.toFixed(6) of a price in 10^-8, kept in 10^-8; the magnitude rounds half up
ToFixed6(x) ==
  IF x >= 0 THEN 100 * ((x + 50) \div 100) ELSE -(100 * (((-x) + 50) \div 100))

\* a window of six candles
Last6(cs) == SubSeq(cs, Max(1, Len(cs) - 5), Len(cs))

\* candles.slice(-5)
Last5(cs) == SubSeq(cs, Max(1, Len(cs) - 4), Len(cs))

\* Math.min(...lows), Math.max(...highs) over a non-empty window; a low or
\* high that parseFloat could not read is NaN, and makes the result NaN
MinLow(cs) ==
  IF \E i \in 1..Len(cs) : cs[i].low = NaN THEN NaN
  ELSE CHOOSE m \in {cs[i].low : i \in 1..Len(cs)} : \A i \in 1..Len(cs) : m <= cs[i].low
MaxHigh(cs) ==
  IF \E i \in 1..Len(cs) : cs[i].high = NaN THEN NaN
  ELSE CHOOSE m \in {cs[i].high : i \in 1..Len(cs)} : \A i \in 1..Len(cs) : m >= cs[i].high

\* minLow * (1 - bufferPercent), maxHigh * (1 + bufferPercent), bufferPercent = 0.005
BufferBelow(x) == IF x = NaN THEN NaN ELSE x - ((5 * (x \div 1000)))
BufferAbove(x) == IF x = NaN THEN NaN ELSE x + ((5 * (x \div 1000)))

\* an entry resolution that takes the override only when it is positive
ResolveEntryPositive(signal, entryPrice) ==
  IF IsNum(entryPrice) /\ entryPrice > 0 THEN entryPrice ELSE signal.currentPrice

\* const entry = entryPrice || signal.currentPrice
ResolveEntry(signal, entryPrice) ==
  IF Falsy(entryPrice) THEN signal.currentPrice ELSE entryPrice

\* stop-loss and take-profit of a BUY / SELL at `entry`
LongStop(cs) == BufferBelow(MinLow(Last5(cs)))
LongTarget(entry, stop) == IF stop = NaN THEN NaN ELSE entry + ((entry - stop) * 2)
ShortStop(cs) == BufferAbove(MaxHigh(Last5(cs)))
ShortTarget(entry, stop) == IF stop = NaN THEN NaN ELSE entry - ((stop - entry) * 2)

\* profitPerUnit / riskPerUnit, toFixed(2): 0/0 is NaN, x/0 is Infinity
Ratio(profitPerUnit, riskPerUnit) ==
  IF riskPerUnit = 0
  THEN (IF profitPerUnit = 0 THEN NaN ELSE Infinity)
  ELSE FixDiv(profitPerUnit, riskPerUnit, 2)

\* the object returned for BUY and SELL; a NaN stop-loss makes every value
\* computed from it NaN
TradeResult(signal, side, entry, stopLoss, takeProfit, positionSizeUSDT) ==
  LET riskPerUnit == Abs(entry - stopLoss)
      profitPerUnit == Abs(takeProfit - entry)
  IN IF stopLoss = NaN
     THEN [ kind |-> "result",
            signal |-> signal.signal,
            side |-> side,
            entry |-> ToFixed6(entry),
            stopLoss |-> NaN,
            takeProfit |-> NaN,
            quantity |-> FixDiv(positionSizeUSDT, entry, 12),
            positionSizeUSDT |-> positionSizeUSDT,
            riskRewardRatio |-> NaN,
            riskAmount |-> NaN,
            potentialProfit |-> NaN,
            stopLossPercent |-> NaN,
            takeProfitPercent |-> NaN ]
     ELSE
     [ kind |-> "result",
       signal |-> signal.signal,
       side |-> side,
       entry |-> ToFixed6(entry),
       stopLoss |-> ToFixed6(stopLoss),
       takeProfit |-> ToFixed6(takeProfit),
       quantity |-> FixDiv(positionSizeUSDT, entry, 12),
       positionSizeUSDT |-> positionSizeUSDT,
       riskRewardRatio |-> Ratio(profitPerUnit, riskPerUnit),
       riskAmount |-> FixDiv(riskPerUnit * positionSizeUSDT, entry, 2),
       potentialProfit |-> FixDiv(profitPerUnit * positionSizeUSDT, entry, 2),
       stopLossPercent |-> FixDiv(riskPerUnit, entry, 4),
       takeProfitPercent |-> FixDiv(profitPerUnit, entry, 4) ]

\* a HOLD result that still reports the position size
HoldResultSized(entry) ==
  [ kind |-> "result", signal |-> "HOLD", side |-> "null", entry |-> entry,
    stopLoss |-> Null, takeProfit |-> Null, quantity |-> 0,
    positionSizeUSDT |-> 100, riskRewardRatio |-> 0, riskAmount |-> 0,
    potentialProfit |-> 0 ]

\* the object returned for HOLD (and for any other signal name)
HoldResult(entry) ==
  [ kind |-> "result", signal |-> "HOLD", side |-> "null", entry |-> entry,
    stopLoss |-> Null, takeProfit |-> Null, quantity |-> 0,
    positionSizeUSDT |-> 0, riskRewardRatio |-> 0, riskAmount |-> 0,
    potentialProfit |-> 0 ]

\* calculateDynamicRisk(signal, candles, entryPrice, positionSizeUSDT)
calculateDynamicRisk(signal, cs, entryPrice, positionSizeUSDT) ==
  IF signal = NoSignal \/ Len(cs) < 5 THEN Thrown(InsufficientData)
  ELSE LET entry == ResolveEntry(signal, entryPrice)
       IN IF Falsy(entry) \/ entry <= 0 THEN Thrown(InvalidEntry)
          ELSE IF signal.signal = "BUY"
               THEN TradeResult(signal, "LONG", entry, LongStop(cs),
                                LongTarget(entry, LongStop(cs)), positionSizeUSDT)
          ELSE IF signal.signal = "SELL"
               THEN TradeResult(signal, "SHORT", entry, ShortStop(cs),
                                ShortTarget(entry, ShortStop(cs)), positionSizeUSDT)
          ELSE HoldResult(entry)

RiskInit ==
  /\ candles = << >>
  /\ riskIn = None
  /\ riskOut = None

\* the caller's candle history grows by one candle
PushCandle ==
  \E c \in CandleShapes :
    /\ Len(candles) < MaxRiskCandles
    /\ riskOut = None
    /\ candles' = Append(candles, c)
    /\ UNCHANGED <<riskIn, riskOut>>

CalculateDynamicRisk ==
  \E signal \in SignalArgs, entryPrice \in EntryArgs, size \in PositionSizes :
    /\ riskOut = None
    /\ riskIn' = [signal |-> signal, entryPrice |-> entryPrice,
                  positionSizeUSDT |-> size]
    /\ riskOut' = calculateDynamicRisk(signal, candles, entryPrice, size)
    /\ UNCHANGED candles

\* the caller is done with the result (or has caught the error)
DropResult ==
  /\ riskOut # None
  /\ riskIn' = None
  /\ riskOut' = None
  /\ UNCHANGED candles

NextRisk ==
  \/ PushCandle
  \/ CalculateDynamicRisk
  \/ DropResult



\* ---- validateRiskParameters ---------------------------------------------
\* riskRewardRatio counts 10^-2, stopLossPercent and the limits count 10^-2
\* (of a percent for the two percentages), riskAmount counts 10^-2 USDT.

\* a property that the limits object does not hold
Undefined == -2000000004

DefaultMaxRiskPercent == 200
DefaultMinRRRatio == 150
DefaultMaxStopLossPercent == 500
\* accountSize, in USDT
AccountSize == 5000

\* destructuring with a default: the default replaces undefined only
OrDefault(x, default) == IF x = Undefined THEN default ELSE x

\* a < b and a > b of numbers: false when either side is NaN
Lt(a, b) == a # NaN /\ b # NaN /\ a < b
Gt(a, b) == a # NaN /\ b # NaN /\ a > b

RiskParamArgs ==
  [riskRewardRatio : {100, 149, 150, 200, NaN},
   stopLossPercent : {300, 500, 501},
   riskAmount : {5000, 10000, 10001}]
LimitArgs ==
  [maxRiskPercent : {Undefined, 100},
   minRRRatio : {Undefined, 200},
   maxStopLossPercent : {Undefined, 300}]

VARIABLES
  valIn,    \* arguments of the last validateRiskParameters call
  valOut    \* what it returned

valVars == <<valIn, valOut>>

ValInit == valIn = None /\ valOut = None

\* the reasons pushed by the three checks, in the order of the checks
Reasons(rrFailed, slFailed, riskFailed) ==
  (IF rrFailed THEN <<"Risk/Reward ratio is below minimum">> ELSE << >>)
  \o (IF slFailed THEN <<"Stop loss distance exceeds maximum">> ELSE << >>)
  \o (IF riskFailed THEN <<"Risk exceeds maximum of account">> ELSE << >>)

AllWithinLimits == "All risk parameters within acceptable limits"

\* (riskAmount / accountSize * 100).toFixed(2)
RiskPercent(riskAmount) ==
  IF riskAmount = NaN THEN NaN ELSE RoundDiv(riskAmount, AccountSize \div 100)

\* a validation that stops at the first failed check
validateRiskParametersFirstOnly(riskParams, limits) ==
  LET maxRiskPercent == OrDefault(limits.maxRiskPercent, DefaultMaxRiskPercent)
      minRRRatio == OrDefault(limits.minRRRatio, DefaultMinRRRatio)
      maxStopLossPercent == OrDefault(limits.maxStopLossPercent, DefaultMaxStopLossPercent)
      rrFailed == Lt(riskParams.riskRewardRatio, minRRRatio)
      slFailed == ~rrFailed /\ Gt(riskParams.stopLossPercent, maxStopLossPercent)
      riskFailed == ~rrFailed /\ ~slFailed /\ riskParams.riskAmount # NaN
                    /\ riskParams.riskAmount * 100 > AccountSize * maxRiskPercent
      reasons == Reasons(rrFailed, slFailed, riskFailed)
  IN [ kind |-> "result",
       valid |-> ~(rrFailed \/ slFailed \/ riskFailed),
       reasons |-> IF Len(reasons) > 0 THEN reasons ELSE <<AllWithinLimits>>,
       riskPercent |-> RiskPercent(riskParams.riskAmount) ]

\* validateRiskParameters(riskParams, limits); riskPercent is
\* riskAmount / accountSize * 100, so riskPercent > maxRiskPercent compares
\* riskAmount * 100 with accountSize * maxRiskPercent
validateRiskParameters(riskParams, limits) ==
  LET maxRiskPercent == OrDefault(limits.maxRiskPercent, DefaultMaxRiskPercent)
      minRRRatio == OrDefault(limits.minRRRatio, DefaultMinRRRatio)
      maxStopLossPercent == OrDefault(limits.maxStopLossPercent, DefaultMaxStopLossPercent)
      rrFailed == Lt(riskParams.riskRewardRatio, minRRRatio)
      slFailed == Gt(riskParams.stopLossPercent, maxStopLossPercent)
      riskFailed == /\ riskParams.riskAmount # NaN
                    /\ riskParams.riskAmount * 100 > AccountSize * maxRiskPercent
      reasons == Reasons(rrFailed, slFailed, riskFailed)
  IN [ kind |-> "result",
       valid |-> ~(rrFailed \/ slFailed \/ riskFailed),
       reasons |-> IF Len(reasons) > 0 THEN reasons ELSE <<AllWithinLimits>>,
       riskPercent |-> RiskPercent(riskParams.riskAmount) ]

ValidateRiskParameters ==
  \E riskParams \in RiskParamArgs, limits \in LimitArgs :
    /\ valOut = None
    /\ valIn' = [riskParams |-> riskParams, limits |-> limits]
    /\ valOut' = validateRiskParameters(riskParams, limits)

\* the caller is done with the validation
DropValidation ==
  /\ valOut # None
  /\ valIn' = None
  /\ valOut' = None

NextVal ==
  \/ ValidateRiskParameters
  \/ DropValidation


\* ========================================================================
\* Signal generation (strategy.js)
\* ========================================================================
\* Closes are positive prices counting 10^-8.  The indicator series keep the
\* same unit (each value rounded to 10^-8); RSI counts 10^-2.

MinCandles == 21
EmaFastPeriod == 9
EmaSlowPeriod == 21
RsiPeriod == 14
InsufficientCandles ==
  "Insufficient candle data. Need at least 21 candles for EMA(21) calculation."

BasePrice == 50000000
Step == 100000
Spread == 500000
\* length of the history the caller starts with
WarmLen == 16

\* a candle that closed at c
CandleAt(c) == [close |-> c, low |-> c - Spread, high |-> c + Spread]

\* the close of candle i in each history: flat, rising, falling, alternating,
\* seven rises against three falls (and the reverse) that end at BasePrice,
\* and 4% rises alternating with 2% falls (and the reverse)
UpDown == <<1, 1, -1, 1, 1, -1, 1, 1, -1, 1>>
Drift(i) == IF i > 11 THEN 4 ELSE SumSeq(SubSeq(UpDown, 1, i - 1))
Swing(i) == (20 * (i \div 2)) - (10 * ((i - 1) \div 2))
CalmHistories == {"flat", "rise", "fall", "zigzag", "up73", "down37"}
Histories == CalmHistories \cup {"surge", "slump"}
HistoryClose(h, i) ==
  CASE h = "flat"   -> BasePrice
    [] h = "rise"   -> BasePrice + ((i - 1) * Step)
    [] h = "fall"   -> BasePrice - ((i - 1) * Step)
    [] h = "zigzag" -> BasePrice + (((i - 1) % 2) * Step)
    [] h = "up73"   -> BasePrice + ((Drift(i) - 4) * Step)
    [] h = "down37" -> BasePrice - ((Drift(i) - 4) * Step)
    [] h = "surge"  -> BasePrice + (Swing(i) * Step)
    [] h = "slump"  -> BasePrice - (Swing(i) * Step)
History(h, n) == [i \in 1..n |-> CandleAt(HistoryClose(h, i))]

\* the closes a new candle can have
NewCloses == {BasePrice - (10 * Step), BasePrice, BasePrice + (10 * Step)}

VARIABLES
  anOut       \* what the last analyzeMarket call returned, or the error it threw

anVars == <<anOut>>

\* ---- the indicators (library technicalindicators) ------------------------

\* EMA.calculate({period, values}): seeded with the mean of the first
\* `period` values, then prev + (value - prev) * 2 / (period + 1)
RECURSIVE EmaFrom(_, _, _, _)
EmaFrom(values, period, i, acc) ==
  IF i > Len(values) THEN acc
  ELSE LET prev == acc[Len(acc)]
       IN EmaFrom(values, period, i + 1,
                  Append(acc, prev + RoundDiv((values[i] - prev) * 2, period + 1)))

EMA(values, period) ==
  IF Len(values) < period THEN << >>
  ELSE EmaFrom(values, period, period + 1,
               <<RoundDiv(SumSeq(SubSeq(values, 1, period)), period)>>)

Gain(values, i) == Max(values[i] - values[i - 1], 0)
Loss(values, i) == Max(values[i - 1] - values[i], 0)

\* 100 - 100 / (1 + avgGain / avgLoss), two decimals; 100 when avgLoss is 0
RsiValue(avgGain, avgLoss) ==
  IF avgLoss = 0 THEN 10000
  ELSE IF avgGain = 0 THEN 0
  ELSE FixDiv(avgGain, avgGain + avgLoss, 4)

\* Wilder smoothing: avg = (prevAvg * (period - 1) + current) / period
RECURSIVE RsiFrom(_, _, _, _, _, _)
RsiFrom(values, period, i, avgGain, avgLoss, acc) ==
  IF i > Len(values) THEN acc
  ELSE LET g == RoundDiv((avgGain * (period - 1)) + Gain(values, i), period)
           l == RoundDiv((avgLoss * (period - 1)) + Loss(values, i), period)
       IN RsiFrom(values, period, i + 1, g, l, Append(acc, RsiValue(g, l)))

\* RSI.calculate({period, values})
RSI(values, period) ==
  IF Len(values) <= period THEN << >>
  ELSE LET g == RoundDiv(SumSeq([i \in 1..period |-> Gain(values, i + 1)]), period)
           l == RoundDiv(SumSeq([i \in 1..period |-> Loss(values, i + 1)]), period)
       IN RsiFrom(values, period, period + 2, g, l, <<RsiValue(g, l)>>)

\* ---- analyzeMarket -------------------------------------------------------

\* series[series.length - k], undefined (here Null) when there is none
FromEnd(series, k) == IF Len(series) >= k THEN series[Len(series) + 1 - k] ELSE Null

\* a comparison with undefined is false
Lte(a, b) == IsNum(a) /\ IsNum(b) /\ a <= b
Gte(a, b) == IsNum(a) /\ IsNum(b) /\ a >= b

TrendOf(ema9, ema21) ==
  IF ema9 > ema21 THEN "BULLISH" ELSE IF ema9 < ema21 THEN "BEARISH" ELSE "NEUTRAL"

\* a crossover test that takes a missing previous value for a crossing
BullishCrossoverLoose(prev9, prev21, ema9, ema21) ==
  (~IsNum(prev21) \/ Lte(prev9, prev21)) /\ ema9 > ema21
BullishCrossover(prev9, prev21, ema9, ema21) == Lte(prev9, prev21) /\ ema9 > ema21
BearishCrossover(prev9, prev21, ema9, ema21) == Gte(prev9, prev21) /\ ema9 < ema21

\* a signal rule that lets the neutral RSI of 50 through
SignalOfInclusive(ema9, ema21, rsi) ==
  IF ema9 > ema21 /\ rsi >= 5000 /\ rsi < 7000 THEN "BUY"
  ELSE IF ema9 < ema21 /\ rsi <= 5000 /\ rsi > 3000 THEN "SELL"
  ELSE "HOLD"

\* the signal rule: BUY, else SELL, else HOLD
SignalOf(ema9, ema21, rsi) ==
  IF ema9 > ema21 /\ rsi > 5000 /\ rsi < 7000 THEN "BUY"
  ELSE IF ema9 < ema21 /\ rsi < 5000 /\ rsi > 3000 THEN "SELL"
  ELSE "HOLD"

\* a trend bonus that takes the separation itself, not ten times it
TrendBonusUnscaled(gap, base) == IF 5 * gap >= base THEN 20 ELSE FixDiv(gap, base, 2)

\* Math.min(emaSeparation * 10, 20) rounded to an integer, for far > near > 0:
\* emaSeparation = (far - near) / base * 100
TrendBonus(gap, base) == IF 50 * gap >= base THEN 20 ELSE FixDiv(gap, base, 3)

\* a confidence that forgets both caps
calculateConfidenceUncapped(ema9, ema21, rsi, signalType, crossover) ==
  IF signalType = "BUY"
  THEN 50 + FixDiv(ema9 - ema21, ema21, 3)
          + (IF rsi >= 5500 /\ rsi <= 6500 THEN 15 ELSE 5)
          + (IF crossover THEN 15 ELSE 0)
  ELSE IF signalType = "SELL"
  THEN 50 + FixDiv(ema21 - ema9, ema21, 3)
          + (IF rsi >= 3500 /\ rsi <= 4500 THEN 15 ELSE 5)
          + (IF crossover THEN 15 ELSE 0)
  ELSE 50

\* calculateConfidence(ema9, ema21, rsi, signalType, crossover)
calculateConfidence(ema9, ema21, rsi, signalType, crossover) ==
  IF signalType = "BUY"
  THEN Min(50 + TrendBonus(ema9 - ema21, ema21)
              + (IF rsi >= 5500 /\ rsi <= 6500 THEN 15 ELSE 5)
              + (IF crossover THEN 15 ELSE 0), 100)
  ELSE IF signalType = "SELL"
  THEN Min(50 + TrendBonus(ema21 - ema9, ema21)
              + (IF rsi >= 3500 /\ rsi <= 4500 THEN 15 ELSE 5)
              + (IF crossover THEN 15 ELSE 0), 100)
  ELSE 50

Closes(cs) == [i \in 1..Len(cs) |-> cs[i].close]

\* the object analyzeMarket builds from the indicator series
Analysis(cs, ema9Values, ema21Values, rsiValues) ==
  LET currentEMA9 == FromEnd(ema9Values, 1)
      currentEMA21 == FromEnd(ema21Values, 1)
      currentRSI == FromEnd(rsiValues, 1)
      previousEMA9 == FromEnd(ema9Values, 2)
      previousEMA21 == FromEnd(ema21Values, 2)
      bullish == BullishCrossover(previousEMA9, previousEMA21, currentEMA9, currentEMA21)
      bearish == BearishCrossover(previousEMA9, previousEMA21, currentEMA9, currentEMA21)
      signal == SignalOf(currentEMA9, currentEMA21, currentRSI)
  IN [ kind |-> "result",
       signal |-> signal,
       confidence |->
         IF signal = "HOLD" THEN 0
         ELSE calculateConfidence(currentEMA9, currentEMA21, currentRSI, signal,
                                  IF signal = "BUY" THEN bullish ELSE bearish),
       indicators |-> [ema9 |-> ToFixed6(currentEMA9),
                       ema21 |-> ToFixed6(currentEMA21),
                       rsi |-> currentRSI],
       trend |-> TrendOf(currentEMA9, currentEMA21),
       crossover |-> [bullish |-> bullish, bearish |-> bearish],
       currentPrice |-> cs[Len(cs)].close,
       analyzed |-> Len(cs) ]

\* a length check that refuses the shortest sufficient history
analyzeMarketStrict(cs) ==
  IF Len(cs) <= MinCandles THEN Thrown(InsufficientCandles)
  ELSE Analysis(cs, EMA(Closes(cs), EmaFastPeriod), EMA(Closes(cs), EmaSlowPeriod),
                RSI(Closes(cs), RsiPeriod))

\* analyzeMarket(candles)
analyzeMarket(cs) ==
  IF Len(cs) < MinCandles THEN Thrown(InsufficientCandles)
  ELSE Analysis(cs, EMA(Closes(cs), EmaFastPeriod), EMA(Closes(cs), EmaSlowPeriod),
                RSI(Closes(cs), RsiPeriod))

\* a new candle closes
AppendCandle ==
  \E c \in NewCloses :
    /\ Len(candles) >= WarmLen
    /\ Len(candles) < MaxCandles
    /\ anOut = None
    /\ candles' = Append(candles, CandleAt(c))
    /\ UNCHANGED anOut

AnalyzeMarket ==
  /\ anOut = None
  /\ anOut' = analyzeMarket(candles)
  /\ UNCHANGED candles

\* the caller is done with the signal (or has caught the error)
DropSignal ==
  /\ anOut # None
  /\ anOut' = None
  /\ UNCHANGED candles

NextAn ==
  \/ AppendCandle
  \/ AnalyzeMarket
  \/ DropSignal

\* both entry points called on one history
NextCalls ==
  \/ AnalyzeMarket /\ UNCHANGED <<riskIn, riskOut>>
  \/ DropSignal /\ UNCHANGED <<riskIn, riskOut>>
  \/ CalculateDynamicRisk /\ UNCHANGED anOut
  \/ DropResult /\ UNCHANGED anOut

\* ========================================================================
\* n8n entry point: processForN8N(items)
\* ========================================================================

\* what items[0].json holds: nothing (items is empty, or the item has no
\* json), an object without candles, or the candle history under the key
\* candles or klines
ItemShapes == {"missing", "empty", "candles", "klines"}
\* the candle prices that can arrive unreadable
PriceFields == {"low", "high"}

CannotReadJson == "Cannot read properties of undefined (reading 'json')"
NoCandles == "No candles data provided"
\* calculateDynamicRisk's default positionSizeUSDT
DefaultPositionSizeUSDT == 100
\* validateRiskParameters' default limits = {}
NoLimits ==
  [maxRiskPercent |-> Undefined, minRRRatio |-> Undefined,
   maxStopLossPercent |-> Undefined]

VARIABLES
  n8nIn,      \* the shape of the items of the last processForN8N call
  n8nOut      \* what the call returned, or the error that left it

n8nVars == <<n8nIn, n8nOut>>

N8NInit == n8nIn = None /\ n8nOut = None

Returned(items) == [kind |-> "returned", items |-> items]

\* the item returned when the candles are missing, and by the catch block
Failure(message) == [success |-> FALSE, error |-> message]

\* the tradeParams of the output
TradeParams(riskParams) ==
  [ side |-> riskParams.side,
    entry |-> riskParams.entry,
    stopLoss |-> riskParams.stopLoss,
    takeProfit |-> riskParams.takeProfit,
    quantity |-> riskParams.quantity,
    positionSizeUSDT |-> riskParams.positionSizeUSDT,
    riskRewardRatio |-> riskParams.riskRewardRatio,
    riskAmount |-> riskParams.riskAmount,
    potentialProfit |-> riskParams.potentialProfit,
    stopLossPercent |-> riskParams.stopLossPercent,
    takeProfitPercent |-> riskParams.takeProfitPercent ]

\* the item returned when the pipeline has run; tradeParams and
\* riskValidation are the record [kind |-> "none"] where the code has null
Success(cs, signal, tradeParams, riskValidation) ==
  [ success |-> TRUE,
    signal |-> signal.signal,
    confidence |-> signal.confidence,
    indicators |-> signal.indicators,
    trend |-> signal.trend,
    crossover |-> signal.crossover,
    currentPrice |-> signal.currentPrice,
    tradeParams |-> tradeParams,
    riskValidation |-> riskValidation,
    candlesAnalyzed |-> Len(cs) ]

\* the risk stage: calculateDynamicRisk(signal, candles) and
\* validateRiskParameters(riskParams), for a signal other than HOLD
RiskStage(cs, signal) ==
  LET riskParams == calculateDynamicRisk(signal, cs, Null, DefaultPositionSizeUSDT)
  IN IF riskParams.kind = "error" THEN riskParams
     ELSE Returned(<<Success(cs, signal, TradeParams(riskParams),
                             validateRiskParameters(riskParams, NoLimits))>>)

\* the body of the try block: what it returns, or the error thrown in it
TryBlock(shape, cs) ==
  IF shape = "missing" THEN Thrown(CannotReadJson)
  ELSE IF shape = "empty" \/ Len(cs) = 0 THEN Returned(<<Failure(NoCandles)>>)
  ELSE LET signal == analyzeMarket(cs)
       IN IF signal.kind = "error" THEN signal
          ELSE IF signal.signal # "HOLD" THEN RiskStage(cs, signal)
          ELSE Returned(<<Success(cs, signal, None, None)>>)

\* an entry point without the catch block
processForN8NUncaught(shape, cs) == TryBlock(shape, cs)

\* processForN8N(items): the try block, and the catch block for its errors
processForN8N(shape, cs) ==
  LET body == TryBlock(shape, cs)
  IN IF body.kind = "error" THEN Returned(<<Failure(body.error)>>) ELSE body

\* is no price of the history unreadable
AllReadable(cs) == \A i \in 1..Len(cs) : \A f \in PriceFields : cs[i][f] # NaN

\* the previous node delivers one of the last five candles with a price that
\* parseFloat cannot read
LosePrice ==
  \E i \in 1..Len(candles), f \in PriceFields :
    /\ n8nOut = None
    /\ i > Len(candles) - 5
    /\ AllReadable(candles)
    /\ candles' = [candles EXCEPT ![i][f] = NaN]
    /\ UNCHANGED n8nVars

ProcessForN8N ==
  \E shape \in ItemShapes :
    /\ n8nOut = None
    /\ n8nIn' = shape
    /\ n8nOut' = processForN8N(shape, candles)
    /\ UNCHANGED candles

\* the workflow is done with the output
DropOutput ==
  /\ n8nOut # None
  /\ n8nIn' = None
  /\ n8nOut' = None
  /\ UNCHANGED candles

NextN8N ==
  \/ LosePrice
  \/ ProcessForN8N
  \/ DropOutput

\* ========================================================================
\* Backtest (backtest.js): openTrade, checkAndClosePosition, closeTrade,
\* runBacktest
\* ========================================================================
\* Money counts 10^-4 USDT.  Prices count 10^-8 as before, quantities 10^-4.
\* runBacktest reads candles[0..i] in iteration i, so the model lets the array
\* grow by the candle of each iteration; candle indexes are those of the code
\* (the first candle has index 0).

\* CONFIG
initialBalance == 50000000
positionSizeUSDT == 1000000
\* positionSizeUSDT * 0.1 / 100 and positionSizeUSDT * 0.05 / 100
commission == positionSizeUSDT \div 1000
slippage == positionSizeUSDT \div 2000
\* the index of the first candle the loop analyzes
FirstIndex == 21

\* how far the low and the high of an eventful candle reach from its close
Reach == 6000000
CandleKinds == {"calm", "dip", "spike", "wide"}
\* the candle of kind k that closed at c
CandleOf(c, k) ==
  [close |-> c,
   low |-> IF k \in {"dip", "wide"} THEN c - Reach ELSE c - Spread,
   high |-> IF k \in {"spike", "wide"} THEN c + Reach ELSE c + Spread]

VARIABLE
  bt   \* the module state of the backtest, and the position of runBacktest

btVars == <<bt>>

NoStats ==
  [totalTrades |-> 0, wins |-> 0, losses |-> 0, breakeven |-> 0,
   totalProfit |-> 0, totalLoss |-> 0, peakBalance |-> initialBalance,
   consecutiveWins |-> 0, consecutiveLosses |-> 0,
   maxConsecutiveWins |-> 0, maxConsecutiveLosses |-> 0]

\* opened counts the calls of openTrade
BtInit ==
  bt = [pc |-> "idle", balance |-> initialBalance, trades |-> << >>,
        openPosition |-> None, stats |-> NoStats, opened |-> 0]

\* (a - b) * quantity in money: a, b prices rounded to 10^-6
TimesQuantity(diff, quantity) ==
  LET diff6 == diff \div 100
      micro == (diff6 * (quantity \div 10000))
               + RoundDiv(diff6 * (quantity % 10000), 10000)
  IN RoundDiv(micro, 100)

\* openTrade(signal, riskParams, index)
openTrade(b, signal, riskParams, index) ==
  [b EXCEPT
     !.openPosition = [kind |-> "position",
                       signal |-> signal.signal,
                       entry |-> riskParams.entry,
                       stopLoss |-> riskParams.stopLoss,
                       takeProfit |-> riskParams.takeProfit,
                       quantity |-> riskParams.quantity,
                       positionSize |-> positionSizeUSDT,
                       entryIndex |-> index,
                       cost |-> commission + slippage],
     !.balance = b.balance - (commission + slippage),
     !.opened = b.opened + 1]

\* the P&L of closeTrade: the price difference times the quantity, less the
\* exit commission
PnL(position, exitPrice) ==
  (IF position.signal = "BUY"
   THEN TimesQuantity(exitPrice - position.entry, position.quantity)
   ELSE TimesQuantity(position.entry - exitPrice, position.quantity))
  - commission

\* the statistics after a trade with P&L pnl that left the balance at balance
StatsAfter(stats, pnl, balance) ==
  LET counted ==
        IF pnl > 0
        THEN [stats EXCEPT
                !.wins = @ + 1,
                !.totalProfit = @ + pnl,
                !.consecutiveWins = @ + 1,
                !.consecutiveLosses = 0,
                !.maxConsecutiveWins = Max(@, stats.consecutiveWins + 1)]
        ELSE IF pnl < 0
        THEN [stats EXCEPT
                !.losses = @ + 1,
                !.totalLoss = @ + Abs(pnl),
                !.consecutiveLosses = @ + 1,
                !.consecutiveWins = 0,
                !.maxConsecutiveLosses = Max(@, stats.consecutiveLosses + 1)]
        ELSE [stats EXCEPT !.breakeven = @ + 1]
  IN [counted EXCEPT
        !.totalTrades = @ + 1,
        !.peakBalance = IF balance > @ THEN balance ELSE @]

\* closeTrade(exitPrice, reason, candle, index); pnl is kept to 10^-2 USDT in
\* the trade (toFixed(2)); maxDrawdown, a percentage derived from peakBalance
\* and balance, and the timestamps are not kept
closeTrade(b, exitPrice, reason, index) ==
  LET pnl == PnL(b.openPosition, exitPrice)
      balance == b.balance + positionSizeUSDT + pnl
  IN [b EXCEPT
        !.balance = balance,
        !.trades = Append(@, [signal |-> b.openPosition.signal,
                              entry |-> b.openPosition.entry,
                              stopLoss |-> b.openPosition.stopLoss,
                              takeProfit |-> b.openPosition.takeProfit,
                              quantity |-> b.openPosition.quantity,
                              positionSize |-> b.openPosition.positionSize,
                              entryIndex |-> b.openPosition.entryIndex,
                              cost |-> b.openPosition.cost,
                              exit |-> exitPrice,
                              exitIndex |-> index,
                              reason |-> reason,
                              pnl |-> RoundDiv(pnl, 100),
                              duration |-> index - b.openPosition.entryIndex]),
        !.stats = StatsAfter(b.stats, pnl, balance),
        !.openPosition = None]

\* the stop-loss and the take-profit test of checkAndClosePosition
StopReached(position, candle) ==
  \/ position.signal = "BUY" /\ candle.low <= position.stopLoss
  \/ position.signal = "SELL" /\ candle.high >= position.stopLoss
TargetReached(position, candle) ==
  \/ position.signal = "BUY" /\ candle.high >= position.takeProfit
  \/ position.signal = "SELL" /\ candle.low <= position.takeProfit

\* a check that looks at the take-profit first, so that the stop-loss wins
checkAndClosePositionStopLast(b, candle, index) ==
  IF b.openPosition = None THEN b
  ELSE IF StopReached(b.openPosition, candle)
  THEN IF Falsy(b.openPosition.stopLoss) THEN b
       ELSE closeTrade(b, b.openPosition.stopLoss, "STOP_LOSS", index)
  ELSE IF TargetReached(b.openPosition, candle)
  THEN IF Falsy(b.openPosition.takeProfit) THEN b
       ELSE closeTrade(b, b.openPosition.takeProfit, "TAKE_PROFIT", index)
  ELSE b

\* checkAndClosePosition(candle, index): the take-profit test comes second and
\* overwrites the stop-loss; a close price of 0 or NaN closes nothing
checkAndClosePosition(b, candle, index) ==
  IF b.openPosition = None THEN b
  ELSE IF TargetReached(b.openPosition, candle)
  THEN IF Falsy(b.openPosition.takeProfit) THEN b
       ELSE closeTrade(b, b.openPosition.takeProfit, "TAKE_PROFIT", index)
  ELSE IF StopReached(b.openPosition, candle)
  THEN IF Falsy(b.openPosition.stopLoss) THEN b
       ELSE closeTrade(b, b.openPosition.stopLoss, "STOP_LOSS", index)
  ELSE b

\* the body of the try block of an iteration: analysis, risk, validation,
\* openTrade; an error of a stage is caught and the iteration opens nothing
Entry(b, cs, index) ==
  LET signal == analyzeMarket(cs)
      riskParams == calculateDynamicRisk(signal, cs, Null, DefaultPositionSizeUSDT)
  IN IF signal.kind = "error" THEN b
     ELSE IF signal.signal # "HOLD" /\ signal.confidence >= 60
     THEN IF riskParams.kind = "error" THEN b
          ELSE IF validateRiskParameters(riskParams, NoLimits).valid
          THEN openTrade(b, signal, riskParams, index)
          ELSE b
     ELSE b

\* an iteration that goes on to the analysis after the check of the position
IterationThrough(b, cs, index) ==
  IF b.openPosition # None
  THEN Entry(checkAndClosePosition(b, cs[index + 1], index), cs, index)
  ELSE Entry(b, cs, index)

\* iteration i of the loop of runBacktest over candles cs[0..i]
Iteration(b, cs, index) ==
  IF b.openPosition # None
  THEN checkAndClosePosition(b, cs[index + 1], index)
  ELSE Entry(b, cs, index)

\* a return of runBacktest that leaves the last position open
FinishedOpen(b, cs) == [b EXCEPT !.pc = "done"]

\* the end of runBacktest: a position still open is closed at the final close
Finished(b, cs) ==
  IF b.openPosition # None
  THEN [closeTrade(b, cs[Len(cs)].close, "END_OF_DATA", Len(cs) - 1)
          EXCEPT !.pc = "done"]
  ELSE [b EXCEPT !.pc = "done"]

\* runBacktest(candles) is called
RunBacktest ==
  /\ bt.pc = "idle"
  /\ bt' = [bt EXCEPT !.pc = "running"]
  /\ UNCHANGED candles

\* the loop runs its next iteration, on the next candle of the array
BacktestIteration ==
  \E c \in NewCloses, k \in CandleKinds :
    /\ bt.pc = "running"
    /\ Len(candles) >= FirstIndex
    /\ Len(candles) < MaxBacktestCandles
    /\ candles' = Append(candles, CandleOf(c, k))
    /\ bt' = Iteration(bt, candles', Len(candles))

\* the array has no more candles: the loop ends and runBacktest returns
BacktestReturn ==
  /\ bt.pc = "running"
  /\ bt' = Finished(bt, candles)
  /\ UNCHANGED candles

NextBt ==
  \/ RunBacktest
  \/ BacktestIteration
  \/ BacktestReturn

\* ========================================================================
\* MEXCClient.placeOrder(symbol, side, quantity, type, price, isOpen)
\* ========================================================================
\* quantity counts tenths of a contract

\* String.prototype.toUpperCase on the strings the callers pass
UpperCase ==
  [long |-> "LONG", buy |-> "BUY", short |-> "SHORT", sell |-> "SELL",
   market |-> "MARKET", limit |-> "LIMIT", invalid |-> "INVALID"]
ToUpperCase(str) == IF str \in DOMAIN UpperCase THEN UpperCase[str] ELSE str

\* the arguments of the calls; NullSide is a side that is not a string
NullSide == "(null)"
Symbols == {"XRP_USDT", "XRPUSDT"}
Sides == {"LONG", "BUY", "SHORT", "SELL", "long", "sell", "INVALID"}
SideArgs == Sides \cup {NullSide}
TypeArgs == {"MARKET", "LIMIT", "limit"}
PriceArgs == {Null, 0, 50000000}
Quantities == {1005}
HttpOutcomes == {"ok", "failed"}

NotAString == "Cannot read properties of null (reading 'toUpperCase')"
InvalidSide == "Invalid side. Use LONG/BUY or SHORT/SELL"
PriceRequired == "Price is required for LIMIT orders"
RequestFailed == "Request failed"

VARIABLE
  po   \* the placeOrder call: its arguments, the requests sent, its result

poVars == <<po>>

NoOrder == [pc |-> "idle", args |-> None, posted |-> 0, request |-> None, out |-> None]
OrderInit == po = NoOrder

\* symbol.includes('_') ? symbol : symbol.replace(/USDT$/, '_USDT')
FuturesSymbol(symbol) == IF symbol = "XRPUSDT" THEN "XRP_USDT" ELSE symbol

\* the order-side code: 1 open long, 4 close long, 3 open short, 2 close
\* short; 0 stands for the side that makes placeOrder throw
OrderSide(side, isOpen) ==
  IF ToUpperCase(side) \in {"LONG", "BUY"} THEN (IF isOpen THEN 1 ELSE 4)
  ELSE IF ToUpperCase(side) \in {"SHORT", "SELL"} THEN (IF isOpen THEN 3 ELSE 2)
  ELSE 0

\* 5 = MARKET, 6 = LIMIT (every type that is not MARKET)
OrderType(type) == IF ToUpperCase(type) = "MARKET" THEN 5 ELSE 6

\* the order built before the request
OrderData(a) ==
  [kind |-> "request",
   symbol |-> FuturesSymbol(a.symbol),
   side |-> OrderSide(a.side, a.isOpen),
   type |-> OrderType(a.type),
   vol |-> a.quantity \div 10,
   openType |-> 1,
   price |-> IF OrderType(a.type) = 6 THEN a.price ELSE Null]

\* a preparation that does not look at the price of a LIMIT order
PreparedAnyPrice(a) ==
  IF a.side = NullSide THEN Thrown(NotAString)
  ELSE IF OrderSide(a.side, a.isOpen) = 0 THEN Thrown(InvalidSide)
  ELSE OrderData(a)

\* the part of the try block before axios.post: the order, or the error thrown
Prepared(a) ==
  IF a.side = NullSide THEN Thrown(NotAString)
  ELSE IF OrderSide(a.side, a.isOpen) = 0 THEN Thrown(InvalidSide)
  ELSE IF OrderType(a.type) = 6 /\ Falsy(a.price) THEN Thrown(PriceRequired)
  ELSE OrderData(a)

\* what the catch block returns
OrderFailure(message) == [success |-> FALSE, error |-> message]

\* OPEN_LONG, CLOSE_SHORT, OPEN_SHORT, CLOSE_LONG
SideText(orderSide) ==
  IF orderSide = 1 THEN "OPEN_LONG" ELSE IF orderSide = 2 THEN "CLOSE_SHORT"
  ELSE IF orderSide = 3 THEN "OPEN_SHORT" ELSE "CLOSE_LONG"

\* placeOrder is called: it returns the failure of an error thrown before the
\* request, or sends the request and awaits the response
PlaceOrder ==
  \E symbol \in Symbols, side \in SideArgs, quantity \in Quantities,
     type \in TypeArgs, price \in PriceArgs, isOpen \in BOOLEAN :
    LET a == [symbol |-> symbol, side |-> side, quantity |-> quantity,
              type |-> type, price |-> price, isOpen |-> isOpen]
    IN /\ po.pc = "idle"
       /\ po' = IF Prepared(a).kind = "error"
                THEN [pc |-> "returned", args |-> a, posted |-> 0, request |-> None,
                      out |-> OrderFailure(Prepared(a).error)]
                ELSE [pc |-> "posted", args |-> a, posted |-> 1,
                      request |-> Prepared(a), out |-> None]

\* the exchange answers, or the request fails: placeOrder returns
HttpResponds ==
  \E outcome \in HttpOutcomes :
    /\ po.pc = "posted"
    /\ po' = [po EXCEPT
                !.pc = "returned",
                !.out = IF outcome = "ok"
                        THEN [success |-> TRUE,
                              symbol |-> po.request.symbol,
                              side |-> SideText(po.request.side),
                              type |-> po.args.type,
                              contracts |-> po.args.quantity]
                        ELSE OrderFailure(RequestFailed)]

\* the caller is done with the result
OrderDone ==
  /\ po.pc = "returned"
  /\ po' = NoOrder

NextOrder ==
  \/ PlaceOrder
  \/ HttpResponds
  \/ OrderDone

\* ========================================================================
\* Specifications
\* ========================================================================
vars == <<rlVars, riskVars, anVars, mexcVars, execVars, delayVars, valVars, n8nVars, liveVars, btVars, poVars>>

Init ==
  /\ RLInit /\ RiskInit /\ anOut = None /\ MexcInit /\ ExecInit /\ DelayInit
  /\ ValInit /\ N8NInit /\ LiveInit /\ BtInit /\ OrderInit

\* the rate limiter, its calls recorded
Next == NextOps /\ UNCHANGED <<riskVars, anVars, mexcVars, execVars, delayVars, valVars, n8nVars, liveVars, btVars, poVars>>
Spec == Init /\ [][Next]_vars

\* the rate limiter, the grants of a window accounted
NextWindow == NextWin /\ UNCHANGED <<riskVars, anVars, mexcVars, execVars, delayVars, valVars, n8nVars, liveVars, btVars, poVars>>
SpecWin == Init /\ [][NextWindow]_vars

\* calls of calculateDynamicRisk on candle histories
NextRiskCalls == NextRisk /\ UNCHANGED <<rlVars, anVars, mexcVars, execVars, delayVars, valVars, n8nVars, liveVars, btVars, poVars>>
SpecRisk == Init /\ [][NextRiskCalls]_vars

\* calls of analyzeMarket on a history that grows candle by candle
InitAn ==
  /\ RLInit
  /\ candles \in {History(h, n) : h \in Histories, n \in WarmLen..MaxCandles}
  /\ riskIn = None
  /\ riskOut = None
  /\ anOut = None
  /\ MexcInit
  /\ ExecInit
  /\ DelayInit
  /\ ValInit
  /\ N8NInit
  /\ LiveInit
  /\ BtInit
  /\ OrderInit
NextAnalysis == NextAn /\ UNCHANGED <<rlVars, riskIn, riskOut, mexcVars, execVars, delayVars, valVars, n8nVars, liveVars, btVars, poVars>>
SpecAn == InitAn /\ [][NextAnalysis]_vars

\* analyzeMarket and calculateDynamicRisk on histories of every length (those
\* whose lows and highs stay near the entry prices of the calls)
InitCalls ==
  /\ RLInit
  /\ candles \in {History(h, n) : h \in CalmHistories, n \in 0..MaxCandles}
  /\ riskIn = None
  /\ riskOut = None
  /\ anOut = None
  /\ MexcInit
  /\ ExecInit
  /\ DelayInit
  /\ ValInit
  /\ N8NInit
  /\ LiveInit
  /\ BtInit
  /\ OrderInit
NextBothCalls == NextCalls /\ UNCHANGED <<rlVars, mexcVars, execVars, delayVars, valVars, n8nVars, liveVars, btVars, poVars>>
SpecCalls == InitCalls /\ [][NextBothCalls]_vars

\* calls of MEXCRateLimiter by concurrent callers
mexcFrame == <<tokens, lastRefill, wpc, wcost, wdue, lastOp, winVars>>
NextMexcCalls == NextMexc /\ UNCHANGED <<mexcFrame, riskVars, anVars, execVars, delayVars, valVars, n8nVars, liveVars, btVars, poVars>>
SpecMexc == Init /\ [][NextMexcCalls]_vars

\* waitForToken calls retried while time passes in short steps
NextRetries ==
  NextRetry /\ UNCHANGED <<riskVars, anVars, mexcVars, execVars, delayVars, valVars, n8nVars, liveVars, btVars, poVars>>
SpecRetry == Init /\ [][NextRetries]_vars

\* calls of RateLimiter.execute among other callers of the limiter
NextExecCalls ==
  NextExec /\ UNCHANGED <<lastOp, winVars, riskVars, anVars, mexcVars, delayVars, valVars, n8nVars, liveVars, btVars, poVars>>
SpecExec == Init /\ [][NextExecCalls]_vars

\* calls of DelayRateLimiter.wait by concurrent callers
NextDelayCalls ==
  NextDelay /\ UNCHANGED <<mexcFrame, riskVars, anVars, mexcVars, execVars, valVars, n8nVars, liveVars, btVars, poVars>>
SpecDelay == Init /\ [][NextDelayCalls]_vars

\* calls of validateRiskParameters
NextValidations ==
  NextVal /\ UNCHANGED <<rlVars, riskVars, anVars, mexcVars, execVars, delayVars, n8nVars, liveVars, btVars, poVars>>
SpecVal == Init /\ [][NextValidations]_vars

\* calls of processForN8N on histories of every length, with and without an
\* unreadable price
InitN8N ==
  /\ RLInit
  /\ candles \in {History(h, n) : h \in Histories, n \in 0..MaxCandles}
  /\ riskIn = None
  /\ riskOut = None
  /\ anOut = None
  /\ MexcInit
  /\ ExecInit
  /\ DelayInit
  /\ ValInit
  /\ N8NInit
  /\ LiveInit
  /\ BtInit
  /\ OrderInit
NextN8NCalls ==
  NextN8N /\ UNCHANGED <<rlVars, riskIn, riskOut, anVars, mexcVars, execVars, delayVars, valVars, liveVars, btVars, poVars>>
SpecN8N == InitN8N /\ [][NextN8NCalls]_vars

\* a single caller of the limiter; time passes, and a timer that is due fires
liveFrame ==
  <<lastOp, winVars, riskVars, anVars, mexcVars, execVars, delayVars, valVars, n8nVars, btVars, poVars>>
NextLiveCalls == NextLive /\ UNCHANGED liveFrame
SpecLive ==
  /\ Init
  /\ [][NextLiveCalls]_vars
  /\ WF_vars(LiveAdvance /\ UNCHANGED liveFrame)
  /\ WF_vars(LiveRetry /\ UNCHANGED liveFrame)

\* runBacktest on candle arrays that begin with each of the histories (those
\* whose lows and highs stay near the closes of the later candles)
InitBt ==
  /\ RLInit
  /\ candles \in {History(h, n) : h \in CalmHistories, n \in {0, FirstIndex}}
  /\ riskIn = None
  /\ riskOut = None
  /\ anOut = None
  /\ MexcInit
  /\ ExecInit
  /\ DelayInit
  /\ ValInit
  /\ N8NInit
  /\ LiveInit
  /\ BtInit
  /\ OrderInit
NextBacktest ==
  NextBt /\ UNCHANGED <<rlVars, riskIn, riskOut, anVars, mexcVars, execVars, delayVars, valVars, n8nVars, liveVars, poVars>>
SpecBt == InitBt /\ [][NextBacktest]_vars

\* calls of MEXCClient.placeOrder
NextOrders ==
  NextOrder /\ UNCHANGED <<rlVars, riskVars, anVars, mexcVars, execVars, delayVars, valVars, n8nVars, liveVars, btVars>>
SpecOrder == Init /\ [][NextOrders]_vars

\* ========================================================================
\* Properties of the rate limiter
\* ========================================================================

\* C1: tryConsume(cost) first refills; if the refilled balance is >= cost it
\* subtracts exactly cost and returns true, otherwise it returns false and
\* the balance stays at its refilled value.
C1_TryConsume ==
  lastOp.op = "tryConsume" =>
    /\ lastOp.ret = (lastOp.pre >= lastOp.cost * 1000)
    /\ lastOp.ret => tokens = lastOp.pre - (lastOp.cost * 1000)
    /\ ~lastOp.ret => tokens = lastOp.pre

\* a tryConsume that was refused although part of the cost was available
C1_Witness ==
  /\ lastOp.op = "tryConsume"
  /\ ~lastOp.ret
  /\ lastOp.pre > 0
  /\ lastOp.cost <= maxTokens
  /\ tokens = lastOp.pre

\* C2: in every reachable state, 0 <= tokens <= maxTokens, whatever the
\* calls, their cost arguments and the elapsed times between them.
C2_TokensInRange == 0 <= tokens /\ tokens <= maxTokens * 1000

\* C3 (as stated): the total cost granted in any window of t seconds is at
\* most C + R*t.
C3_WindowBound ==
  winStart >= 0 =>
    winGranted * 1000 <= (maxTokens * 1000) + (refillRate * (now - winStart))

\* C3 (amended): the total cost granted in any window of t seconds in which
\* reset() is not called is at most C + R*t.
C3_WindowBoundNoReset ==
  (winStart >= 0 /\ ~winReset) =>
    winGranted * 1000 <= (maxTokens * 1000) + (refillRate * (now - winStart))

\* a window without reset whose grants use up the whole budget C + R*t, t > 0
C3_Witness ==
  /\ winStart >= 0
  /\ ~winReset
  /\ now > winStart
  /\ winGranted * 1000 = (maxTokens * 1000) + (refillRate * (now - winStart))


\* C12: a single call that asks for more than the capacity never succeeds:
\* tryConsume(cost) with cost > maxTokens never returns true, and a
\* waitForToken(cost) with cost > maxTokens is never resolved, whatever time
\* has passed and whatever the other callers did.
C12_OverCapacityNeverGranted ==
  /\ (lastOp.op \in {"tryConsume", "waitForToken"} /\ lastOp.cost > maxTokens) =>
       (lastOp.ret = FALSE)
  /\ \A w \in Waiters : (wcost[w] > maxTokens) => (wpc[w] # "resolved")

\* a waitForToken above the capacity was retried on a full bucket at the end
\* of the observed time, and refused again
C12_Witness ==
  /\ now = MaxTime
  /\ lastOp.op = "waitForToken"
  /\ lastOp.cost = maxTokens + 1
  /\ lastOp.pre = maxTokens * 1000
  /\ lastOp.ret = FALSE
  /\ \E w \in Waiters :
       wpc[w] = "waiting" /\ wcost[w] = maxTokens + 1 /\ wdue[w] > now

\* C13: execute(fn, cost) invokes fn exactly once, and only after
\* waitForToken(cost) has resolved, having debited cost tokens; it is never
\* invoked while the acquisition is pending; execute settles with what fn
\* settled with.  (The witness shows another caller acquiring in between.)
C13_ExecuteAfterAcquire ==
  \A w \in Waiters :
    /\ (exec[w].pc = "pending") => (exec[w].invoked = 0)
    /\ (exec[w].pc = "pending" /\ wpc[w] = "waiting") => (exec[w].debited = 0)
    /\ (exec[w].pc = "pending" /\ wpc[w] = "resolved") =>
         (exec[w].debited = exec[w].cost * 1000)
    /\ (exec[w].pc \in {"running", "settled"}) =>
         (exec[w].invoked = 1 /\ exec[w].debited = exec[w].cost * 1000)
    /\ (exec[w].pc = "settled") => (exec[w].outcome = exec[w].fnOutcome)

\* one execute has acquired after a wait and has not yet invoked fn, while a
\* second one, which acquired the last token in between, already runs fn
C13_Witness ==
  /\ exec["w1"].pc = "pending"
  /\ wpc["w1"] = "resolved"
  /\ exec["w1"].cost = maxTokens
  /\ exec["w2"].pc = "running"
  /\ exec["w2"].cost = 1
  /\ tokens < 1000
  /\ now > 0

\* ========================================================================
\* Properties of calculateDynamicRisk
\* ========================================================================
RiskCalled == riskOut.kind # "none"
RiskReturned == riskOut.kind = "result"
RiskThrew(msg) == riskOut.kind = "error" /\ riskOut.error = msg
RiskTrade == RiskReturned /\ riskOut.side \in {"LONG", "SHORT"}

\* C4: whenever calculateDynamicRisk returns a result whose side is LONG or
\* SHORT, its riskRewardRatio is 2.0 within 0.01, for every entry price and
\* every set of last-five lows and highs.
C4_RatioIsTwo ==
  RiskTrade =>
    /\ IsNum(riskOut.riskRewardRatio)
    /\ riskOut.riskRewardRatio >= 199
    /\ riskOut.riskRewardRatio <= 201

\* C5: every LONG result has stopLoss <= entry <= takeProfit and every SHORT
\* result has takeProfit <= entry <= stopLoss, for every entry price and
\* every candle window.
C5_StopEntryTarget ==
  /\ (RiskReturned /\ riskOut.side = "LONG") =>
       (riskOut.stopLoss <= riskOut.entry /\ riskOut.entry <= riskOut.takeProfit)
  /\ (RiskReturned /\ riskOut.side = "SHORT") =>
       (riskOut.takeProfit <= riskOut.entry /\ riskOut.entry <= riskOut.stopLoss)

\* the all-null, all-zero result of a HOLD
IsHoldResult ==
  /\ RiskReturned
  /\ riskOut.side = "null"
  /\ riskOut.stopLoss = Null
  /\ riskOut.takeProfit = Null
  /\ riskOut.quantity = 0
  /\ riskOut.positionSizeUSDT = 0
  /\ riskOut.riskRewardRatio = 0
  /\ riskOut.riskAmount = 0
  /\ riskOut.potentialProfit = 0

RiskCalledWith(kind) == RiskCalled /\ riskIn.signal.signal = kind

\* the call names a usable entry: a positive override, or no override (absent
\* or 0) and a positive signal.currentPrice
UsableEntry ==
  IF riskIn.entryPrice \in {Null, 0}
  THEN IsNum(riskIn.signal.currentPrice) /\ riskIn.signal.currentPrice > 0
  ELSE riskIn.entryPrice > 0

\* C6 (as stated): for every HOLD signal calculateDynamicRisk does not raise
\* and returns side, stopLoss and takeProfit null and quantity,
\* positionSizeUSDT, riskRewardRatio, riskAmount and potentialProfit 0.
C6_HoldAlwaysReturns == RiskCalledWith("HOLD") => IsHoldResult

\* C6 (amended): for every HOLD signal with at least 5 candles and a usable
\* entry price calculateDynamicRisk returns that all-null, all-zero result.
C6_HoldReturnsWhenInputValid ==
  (RiskCalledWith("HOLD") /\ Len(candles) >= 5 /\ UsableEntry) => IsHoldResult

\* a HOLD call that returned
C6_Witness == RiskCalledWith("HOLD") /\ Len(candles) >= 5 /\ IsHoldResult

\* a call that passes the first check: a signal and at least 5 candles
RiskCallChecksEntry ==
  RiskCalled /\ riskIn.signal # NoSignal /\ Len(candles) >= 5

WindowIndexes == (Len(candles) - 4)..Len(candles)
LowestLow ==
  CHOOSE m \in {candles[i].low : i \in WindowIndexes} :
    \A i \in WindowIndexes : m <= candles[i].low
HighestHigh ==
  CHOOSE m \in {candles[i].high : i \in WindowIndexes} :
    \A i \in WindowIndexes : m >= candles[i].high
\* 0.995 and 1.005 times a price of five decimals
LowestLowLessBuffer == (LowestLow \div 1000) * 995
HighestHighPlusBuffer == (HighestHigh \div 1000) * 1005

\* C16: for a BUY calculateDynamicRisk returns stopLoss = (lowest low of
\* the last 5 candles) * 0.995 and takeProfit = entry + 2 * (entry - stopLoss),
\* for a SELL stopLoss = (highest high of the last 5 candles) * 1.005 and
\* takeProfit = entry - 2 * (stopLoss - entry), each to six decimals; quantity
\* is positionSizeUSDT / entry to four decimals; and the result is the one the
\* last 5 candles alone give.
C16_StopAndTargetFromLastFive ==
  /\ (RiskCalledWith("BUY") /\ RiskReturned) =>
       /\ riskOut.side = "LONG"
       /\ riskOut.stopLoss = ToFixed6(LowestLowLessBuffer)
       /\ riskOut.takeProfit =
            ToFixed6(riskOut.entry + (2 * (riskOut.entry - LowestLowLessBuffer)))
  /\ (RiskCalledWith("SELL") /\ RiskReturned) =>
       /\ riskOut.side = "SHORT"
       /\ riskOut.stopLoss = ToFixed6(HighestHighPlusBuffer)
       /\ riskOut.takeProfit =
            ToFixed6(riskOut.entry - (2 * (HighestHighPlusBuffer - riskOut.entry)))
  /\ RiskTrade =>
       /\ riskOut.quantity = FixDiv(riskIn.positionSizeUSDT, riskOut.entry, 12)
       /\ riskOut = calculateDynamicRisk(riskIn.signal,
                                         [i \in 1..5 |-> candles[Len(candles) - 5 + i]],
                                         riskIn.entryPrice, riskIn.positionSizeUSDT)

\* a BUY on six candles whose lowest low is in the first one, outside the
\* window: the stop comes from the lows of the other five
C16_Witness ==
  /\ RiskCalledWith("BUY")
  /\ RiskReturned
  /\ Len(candles) = 6
  /\ candles[1].low = 48000000
  /\ \A i \in 2..6 : candles[i].low = 49123000
  /\ riskOut.stopLoss = 48877400


\* obj[name]: undefined when the object has no such property
Property(obj, name) == IF name \in DOMAIN obj THEN obj[name] ELSE Undefined

\* C18: for a BUY or SELL with position size P the result reports
\* positionSizeUSDT = P, leverage = 10, notionalValue = 10 * P and
\* marginRequired = P.
C18_LeverageReported ==
  RiskTrade =>
    /\ riskOut.positionSizeUSDT = riskIn.positionSizeUSDT
    /\ Property(riskOut, "leverage") = 10
    /\ Property(riskOut, "notionalValue") = 10 * riskIn.positionSizeUSDT
    /\ Property(riskOut, "marginRequired") = riskIn.positionSizeUSDT

\* the part of it the result does carry
C18_PositionSizeReported ==
  RiskTrade => (riskOut.positionSizeUSDT = riskIn.positionSizeUSDT)


\* ---- validateRiskParameters ---------------------------------------------
ValReturned == valOut.kind = "result"

\* the limits of the call, 2 / 1.5 / 5 where the argument omits them
LimitMaxRiskPercent ==
  IF valIn.limits.maxRiskPercent = Undefined THEN 200 ELSE valIn.limits.maxRiskPercent
LimitMinRRRatio ==
  IF valIn.limits.minRRRatio = Undefined THEN 150 ELSE valIn.limits.minRRRatio
LimitMaxStopLossPercent ==
  IF valIn.limits.maxStopLossPercent = Undefined THEN 500
  ELSE valIn.limits.maxStopLossPercent

\* the three checks of the call
RatioTooLow ==
  valIn.riskParams.riskRewardRatio # NaN
  /\ valIn.riskParams.riskRewardRatio < LimitMinRRRatio
StopTooFar == valIn.riskParams.stopLossPercent > LimitMaxStopLossPercent
RiskTooHigh == valIn.riskParams.riskAmount > 50 * LimitMaxRiskPercent

\* C15: validateRiskParameters evaluates its three checks without
\* short-circuiting: valid is true iff none failed, reasons holds one entry per
\* failed check in the order of the checks, and exactly one informational
\* entry when valid; a limit the argument omits is 2 (risk percent), 1.5
\* (ratio) or 5 (stop loss percent).
C15_AllChecksReported ==
  ValReturned =>
    /\ valOut.valid <=> ~(RatioTooLow \/ StopTooFar \/ RiskTooHigh)
    /\ valOut.valid => (valOut.reasons = <<AllWithinLimits>>)
    /\ ~valOut.valid =>
         (valOut.reasons =
            (IF RatioTooLow THEN <<"Risk/Reward ratio is below minimum">> ELSE << >>)
            \o (IF StopTooFar THEN <<"Stop loss distance exceeds maximum">> ELSE << >>)
            \o (IF RiskTooHigh THEN <<"Risk exceeds maximum of account">> ELSE << >>))

\* all three checks failed, two of them against default limits
C15_Witness ==
  /\ ValReturned
  /\ valIn.limits.maxRiskPercent = Undefined
  /\ valIn.limits.maxStopLossPercent = Undefined
  /\ valIn.limits.minRRRatio = 200
  /\ valIn.riskParams.riskRewardRatio = 150
  /\ Len(valOut.reasons) = 3
  /\ ~valOut.valid


\* ========================================================================
\* Properties of analyzeMarket
\* ========================================================================
AnCalled == anOut.kind # "none"
AnReturned == anOut.kind = "result"
AnThrew(msg) == anOut.kind = "error" /\ anOut.error = msg

\* the current indicator values of the history (21 candles or more)
CurrentEMA9 == FromEnd(EMA(Closes(candles), 9), 1)
CurrentEMA21 == FromEnd(EMA(Closes(candles), 21), 1)
CurrentRSI == FromEnd(RSI(Closes(candles), 14), 1)

\* C7: the signal analyzeMarket returns is BUY exactly when the current
\* EMA9 is above the current EMA21 and 50 < RSI < 70, SELL exactly when EMA9 is
\* below EMA21 and 30 < RSI < 50, and otherwise HOLD with confidence 0 (RSI of
\* exactly 30, 50 or 70 and equal EMAs included).
C7_SignalRule ==
  AnReturned =>
    /\ anOut.signal \in {"BUY", "SELL", "HOLD"}
    /\ (anOut.signal = "BUY") <=>
         (CurrentEMA9 > CurrentEMA21 /\ CurrentRSI > 5000 /\ CurrentRSI < 7000)
    /\ (anOut.signal = "SELL") <=>
         (CurrentEMA9 < CurrentEMA21 /\ CurrentRSI > 3000 /\ CurrentRSI < 5000)
    /\ (anOut.signal = "HOLD") => (anOut.confidence = 0)

\* a rising trend with an RSI of exactly 50 was analysed and held
C7_Witness ==
  /\ AnReturned
  /\ CurrentEMA9 > CurrentEMA21
  /\ CurrentRSI = 5000
  /\ anOut.signal = "HOLD"
  /\ anOut.confidence = 0

C10_MinimumHistory ==
  /\ AnCalled =>
       /\ (Len(candles) < 21) => AnThrew(InsufficientCandles)
       /\ (Len(candles) >= 21) => AnReturned
  /\ RiskCalled =>
       /\ (Len(candles) < 5) => RiskThrew(InsufficientData)
       /\ (Len(candles) >= 5 /\ riskIn.signal # NoSignal) =>
            ~RiskThrew(InsufficientData)

\* a history of exactly 21 candles was analysed, one of exactly 5 was not
C10_Witness ==
  /\ Len(candles) = 21
  /\ AnReturned
  /\ RiskReturned


\* the bonuses the returned signal is entitled to
EmaGap == Abs(CurrentEMA9 - CurrentEMA21)
RsiBonus ==
  IF anOut.signal = "BUY"
  THEN (IF CurrentRSI >= 5500 /\ CurrentRSI <= 6500 THEN 15 ELSE 5)
  ELSE (IF CurrentRSI >= 3500 /\ CurrentRSI <= 4500 THEN 15 ELSE 5)
CrossoverBonus ==
  IF anOut.signal = "BUY"
  THEN (IF anOut.crossover.bullish THEN 15 ELSE 0)
  ELSE (IF anOut.crossover.bearish THEN 15 ELSE 0)
\* what is left of the confidence for the trend-strength bonus
TrendPart == anOut.confidence - 50 - RsiBonus - CrossoverBonus

\* C17: for BUY and SELL the confidence is min(100, round(50 + min(|EMA9 -
\* EMA21| / EMA21 * 100 * 10, 20) + (15 if RSI is in [55,65] for BUY, [35,45]
\* for SELL, else 5) + (15 if the matching crossover flag is set, else 0))):
\* the trend part is 20 when the separation is 2% or more, and otherwise the
\* integer nearest to 1000 * |EMA9 - EMA21| / EMA21.
C17_ConfidenceFormula ==
  (AnReturned /\ anOut.signal \in {"BUY", "SELL"}) =>
    /\ anOut.confidence <= 100
    /\ (50 * EmaGap >= CurrentEMA21) => (TrendPart = 20)
    /\ (50 * EmaGap < CurrentEMA21) =>
         /\ TrendPart >= 0
         /\ TrendPart <= 20
         /\ 2 * Abs((TrendPart * CurrentEMA21) - (1000 * EmaGap)) <= CurrentEMA21

\* a BUY on a bullish crossover with an RSI between 55 and 65 and EMAs about
\* 0.6% apart: 50 + 6 + 15 + 15
C17_Witness ==
  /\ AnReturned
  /\ anOut.signal = "BUY"
  /\ anOut.crossover.bullish
  /\ CurrentRSI >= 5500
  /\ CurrentRSI <= 6500
  /\ TrendPart = 6
  /\ anOut.confidence = 86


\* ========================================================================
\* Properties of MEXCRateLimiter
\* ========================================================================
\* the weight of an endpoint as documented: its entry in the table, 1 for a
\* name the table does not hold
DocumentedWeight(endpoint) ==
  IF endpoint \in DOMAIN Weights THEN Weights[endpoint] ELSE 1

\* the call of caller c asks both buckets for the documented weight, and once
\* wait() has resolved (or fn has been invoked) each bucket has granted it
WaitedBothBuckets(c) ==
  /\ (mcall[c].pc # "idle") =>
       (mcall[c].weight = DocumentedWeight(mcall[c].endpoint))
  /\ (mcall[c].pc \in {"resolved", "running"}) =>
       \A b \in BucketNames :
         /\ mcall[c].granted[b]
         /\ mcall[c].debited[b] = DocumentedWeight(mcall[c].endpoint) * 1000

\* C11: MEXCRateLimiter.wait(endpoint) resolves only after the IP bucket and
\* the UID bucket have each granted the endpoint's weight, the weight being the
\* entry of the static table for the endpoint name and 1 for any unknown name;
\* execute(fn, endpoint) does not invoke fn before that.
C11_WaitBothBuckets == \A c \in Callers : WaitedBothBuckets(c)

\* the same for endpoint names that Object.prototype does not define
C11_WaitBothBucketsOwnNames ==
  \A c \in Callers :
    (mcall[c].endpoint \notin ObjectPrototypeNames) => WaitedBothBuckets(c)


\* the other bucket
Other(b) == IF b = "ip" THEN "uid" ELSE "ip"
\* the call of caller c starts in this step
CallStarts(c) == mcall[c].pc = "idle" /\ mcall'[c].pc # "idle"
\* an attempt of the call of c on bucket b runs from its timer in this step
TimerFires(c, b) ==
  /\ mcall[c].pc = "waiting"
  /\ mcall'[c].pc # "idle"
  /\ mcall'[c].granted[b] # mcall[c].granted[b] \/ mcall'[c].due[b] # mcall[c].due[b]
\* what bucket b alone answers to a request of `weight` made now
OwnGrant(b, weight) ==
  IsNum(weight) /\ BucketRefilled(b, mTokens[b], mLast[b], now) >= weight * 1000
OwnDue(b, weight) ==
  now + Max(CeilDiv((weight * 1000) - BucketRefilled(b, mTokens[b], mLast[b], now),
                    Rate[b]), 100)

\* C22: the two bucket waits of MEXCRateLimiter.wait run concurrently: both
\* start inside the call, each is granted or rescheduled by its own bucket
\* alone, a timer of one bucket changes nothing of the other, and wait resolves
\* at the later of the two grants.
C22_ConcurrentWaits ==
  /\ [](\A c \in Callers :
          mcall[c].pc = "resolved" =>
            /\ \A b \in BucketNames : mcall[c].at[b] >= 0
            /\ mcall[c].resolvedAt = Max(mcall[c].at["ip"], mcall[c].at["uid"]))
  /\ [][\A c \in Callers, b \in BucketNames :
          /\ CallStarts(c) =>
               /\ mcall'[c].granted[b] <=> OwnGrant(b, mcall'[c].weight)
               /\ (IsNum(mcall'[c].weight) /\ ~mcall'[c].granted[b]) =>
                    mcall'[c].due[b] = OwnDue(b, mcall'[c].weight)
          /\ (TimerFires(c, b) /\ ~TimerFires(c, Other(b))) =>
               /\ mcall'[c].granted[Other(b)] = mcall[c].granted[Other(b)]
               /\ mcall'[c].due[Other(b)] = mcall[c].due[Other(b)]
               /\ mcall'[c].at[Other(b)] = mcall[c].at[Other(b)]
               /\ mTokens'[Other(b)] = mTokens[Other(b)]]_vars

\* the UID bucket granted at once, the IP bucket later: wait resolved with it
C22_Witness ==
  \E c \in Callers :
    /\ mcall[c].pc = "resolved"
    /\ mcall[c].at["uid"] < mcall[c].at["ip"]
    /\ mcall[c].resolvedAt = mcall[c].at["ip"]

\* C28: a resolved wait(endpoint) has debited the endpoint's weight exactly
\* once from each bucket; a bucket that granted before the other stays debited
\* while the other is waited for: no step gives tokens back, the balance of a
\* bucket rises by its refill or by reset() only.
C28_DebitedOncePerBucket ==
  /\ [](\A c \in Callers, b \in BucketNames :
          /\ mcall[c].pc = "resolved" =>
               mcall[c].debited[b] = DocumentedWeight(mcall[c].endpoint) * 1000
          /\ (mcall[c].pc = "waiting" /\ mcall[c].granted[b]) =>
               mcall[c].debited[b] = DocumentedWeight(mcall[c].endpoint) * 1000)
  /\ [][\A b \in BucketNames :
          \/ mTokens'[b] <= BucketRefilled(b, mTokens[b], mLast[b], now')
          \/ mTokens'[b] = Capacity[b] * 1000]_vars

\* the UID bucket is debited and time has passed while the IP bucket is still
\* waited for
C28_Witness ==
  \E c \in Callers :
    /\ mcall[c].pc = "waiting"
    /\ mcall[c].granted["uid"]
    /\ mcall[c].debited["uid"] = Weights["account"] * 1000
    /\ ~mcall[c].granted["ip"]
    /\ now > mcall[c].at["uid"]

\* ========================================================================
\* Properties of DelayRateLimiter
\* ========================================================================
\* C14: any two completions of DelayRateLimiter.wait() are at least
\* 1000 / requestsPerSecond ms apart, for every interleaving of the callers,
\* calls made while an earlier wait() is still pending included.
C14_MinimumGap ==
  (dDone.count >= 2) => (dDone.last - dDone.prev >= minDelay)


\* ========================================================================
\* Properties of processForN8N
\* ========================================================================
N8NCalled == n8nOut # None
Json == n8nOut.items[1]
ErrorMessages == {CannotReadJson, NoCandles, InsufficientCandles, InsufficientData, InvalidEntry}

\* the input for which the pipeline cannot run: no item, no candles, an empty
\* history, or fewer than 21 candles
InputFails ==
  n8nIn \in {"missing", "empty"} \/ Len(candles) < MinCandles

\* the output of a pipeline that ran to its end: the signal, and for BUY and
\* SELL the trade parameters and their validation
PipelineCompleted(json) ==
  /\ json.signal \in SignalKinds
  /\ json.candlesAnalyzed = Len(candles)
  /\ json.signal = "HOLD" => json.tradeParams = None /\ json.riskValidation = None
  /\ json.signal # "HOLD" =>
       /\ json.tradeParams # None
       /\ json.tradeParams.side \in {"LONG", "SHORT"}
       /\ json.riskValidation # None
       /\ json.riskValidation.valid \in BOOLEAN

\* C19: processForN8N never propagates an error: every call returns a
\* one-item array; for missing or empty candles, for fewer than 21 candles and
\* for any error thrown by a stage the item has success = false and an error
\* message; success = true is returned only when the whole pipeline completed.
C19_NeverPropagates ==
  N8NCalled =>
    /\ n8nOut.kind = "returned"
    /\ Len(n8nOut.items) = 1
    /\ Json.success \in BOOLEAN
    /\ ~Json.success => "error" \in DOMAIN Json /\ Json.error \in ErrorMessages
    /\ InputFails => ~Json.success
    /\ Json.success => ~InputFails /\ PipelineCompleted(Json)

\* the error analyzeMarket throws for a short history is caught and reported
C19_Witness ==
  /\ N8NCalled
  /\ n8nIn = "candles"
  /\ Len(candles) > 0
  /\ Len(candles) < MinCandles
  /\ n8nOut = Returned(<<Failure(InsufficientCandles)>>)

\* the prices the risk stage reads for a signal: the lows of the last five
\* candles for BUY, their highs for SELL
PricesRead(signal) ==
  IF signal = "BUY" THEN {candles[i].low : i \in WindowIndexes}
  ELSE IF signal = "SELL" THEN {candles[i].high : i \in WindowIndexes}
  ELSE {}

\* C20: when a low or high that calculateDynamicRisk reads among the last five
\* candles is not a valid number, the pipeline raises an error (which the
\* entry point reports as success = false); no result is built from it.
C20_InvalidPriceRaises ==
  (/\ N8NCalled
   /\ n8nIn \in {"candles", "klines"}
   /\ Len(candles) >= MinCandles
   /\ NaN \in PricesRead(analyzeMarket(candles).signal))
  => ~Json.success

\* C20, the other direction: a result with trade parameters holds numbers only
\* when every price read was a number
C20_ReadablePricesGiveNumbers ==
  (/\ N8NCalled
   /\ n8nIn \in {"candles", "klines"}
   /\ Len(candles) >= MinCandles
   /\ NaN \notin PricesRead(analyzeMarket(candles).signal)
   /\ Json.success
   /\ Json.signal # "HOLD")
  => /\ IsNum(Json.tradeParams.stopLoss)
     /\ IsNum(Json.tradeParams.takeProfit)

\* ========================================================================
\* Properties of the crossover detection
\* ========================================================================
Ema9Series == EMA(Closes(candles), EmaFastPeriod)
Ema21Series == EMA(Closes(candles), EmaSlowPeriod)
\* the indicator values one candle earlier, where the series have them
PreviousEMA9 == Ema9Series[Len(Ema9Series) - 1]
PreviousEMA21 == Ema21Series[Len(Ema21Series) - 1]

\* C21: a history for which a series has fewer than two points (21 candles:
\* EMA21 has one value) is analyzed without an error and reports both
\* crossovers as false; otherwise bullish is (previous EMA9 <= previous EMA21
\* and current EMA9 > current EMA21) and bearish the mirror condition.
C21_CrossoverRule ==
  /\ (AnCalled /\ Len(candles) >= MinCandles) => AnReturned
  /\ AnReturned =>
       IF Len(Ema21Series) < 2 \/ Len(Ema9Series) < 2
       THEN ~anOut.crossover.bullish /\ ~anOut.crossover.bearish
       ELSE /\ anOut.crossover.bullish <=>
                 (PreviousEMA9 <= PreviousEMA21 /\ CurrentEMA9 > CurrentEMA21)
            /\ anOut.crossover.bearish <=>
                 (PreviousEMA9 >= PreviousEMA21 /\ CurrentEMA9 < CurrentEMA21)

\* 21 candles with EMA9 above the single EMA21 value: no crossover reported
C21_Witness ==
  /\ AnReturned
  /\ Len(Ema21Series) = 1
  /\ CurrentEMA9 > CurrentEMA21
  /\ ~anOut.crossover.bullish
  /\ ~anOut.crossover.bearish

\* ========================================================================
\* Properties of the retry schedule of waitForToken
\* ========================================================================
\* waiter w ran an attempt in this step: its call started, or its timer fired
Attempted(w) ==
  \/ wpc[w] = "idle" /\ wpc'[w] # "idle"
  \/ wpc[w] = "waiting" /\ (wpc'[w] = "resolved" \/ wdue'[w] # wdue[w])

\* C23: an attempt of waitForToken(cost) that fails to consume schedules the
\* next attempt max(ceil((cost - tokens) / refillRate * 1000), 100) ms later,
\* and an attempt runs no earlier than it was scheduled: consecutive attempts
\* of one waiter are at least 100 ms apart.
C23_RetryFloor ==
  [][\A w \in Waiters :
       Attempted(w) =>
         /\ wpc[w] = "waiting" => now >= wdue[w]
         /\ wpc'[w] = "waiting" =>
              /\ wdue'[w] - now =
                   Max(CeilDiv((wcost'[w] * 1000) - tokens', refillRate), 100)
              /\ wdue'[w] - now >= 100]_vars

\* a retry scheduled by the floor: the deficit alone asks for less than 100 ms
C23_Witness ==
  \E w \in Waiters :
    /\ wpc[w] = "waiting"
    /\ lastOp.op = "waitForToken"
    /\ lastOp.ret = FALSE
    /\ now = lastRefill
    /\ (wcost[w] * 1000) - tokens > 0
    /\ (wcost[w] * 1000) - tokens < 100 * refillRate
    /\ wdue[w] = now + 100

\* ========================================================================
\* Properties of waitForToken with a single caller
\* ========================================================================
\* C27: with refillRate > 0 and a single caller, waitForToken(cost) with
\* 0 < cost <= maxTokens eventually resolves, and when it has resolved exactly
\* cost tokens have been debited for it over all its attempts.
C27_ResolvesDebitedOnce ==
  /\ [](wpc[LiveCaller] = "resolved" => live.debited = wcost[LiveCaller] * 1000)
  /\ [](wpc[LiveCaller] = "waiting" => live.debited = 0)
  /\ (wpc[LiveCaller] = "waiting") ~> (wpc[LiveCaller] = "resolved")

\* a wait that resolved at a retry
C27_Witness ==
  /\ wpc[LiveCaller] = "resolved"
  /\ live.attempts >= 2
  /\ live.debited = wcost[LiveCaller] * 1000

\* ========================================================================
\* Properties of the backtest
\* ========================================================================
LastTrade == bt.trades[Len(bt.trades)]
LastCandle == candles[Len(candles)]
\* the sum of the P&L of the closed trades, as closeTrade accumulates it
SumPnL == bt.stats.totalProfit - bt.stats.totalLoss

\* C24: with no position open, balance - initialBalance is the sum of the
\* trades' P&L (net of the exit commission) minus their entry costs: the
\* position size is never added to or removed from the balance on net.
C24_BalanceTracksPnL ==
  bt.openPosition = None =>
    bt.balance - initialBalance
      = SumPnL - (Len(bt.trades) * (commission + slippage))

\* what the balance is instead: each closed trade has added the position size
C24_BalanceGainsPositionSize ==
  bt.openPosition = None =>
    bt.balance - initialBalance
      = (SumPnL - (Len(bt.trades) * (commission + slippage)))
        + (Len(bt.trades) * positionSizeUSDT)

\* does the analysis of the array allow an entry at its last candle
Qualifies(cs) ==
  LET signal == analyzeMarket(cs)
  IN /\ signal.kind = "result"
     /\ signal.signal \in {"BUY", "SELL"}
     /\ signal.confidence >= 60
     /\ LET riskParams == calculateDynamicRisk(signal, cs, Null, 100)
        IN /\ riskParams.kind = "result"
           /\ validateRiskParameters(riskParams, NoLimits).valid

\* C26: a position is opened at a candle only if none is open at that candle,
\* the signal is BUY or SELL with confidence >= 60 and the risk validation is
\* valid; at most one position is open at any time, and a candle that closes a
\* position opens none.
C26_EntryRule ==
  /\ [](/\ bt.opened - Len(bt.trades) \in {0, 1}
        /\ (bt.openPosition # None) <=> (bt.opened - Len(bt.trades) = 1))
  /\ [][/\ bt'.opened # bt.opened =>
             /\ bt.openPosition = None
             /\ bt'.opened = bt.opened + 1
             /\ bt'.trades = bt.trades
             /\ bt'.openPosition.entryIndex = Len(candles') - 1
             /\ Qualifies(candles')
        /\ bt'.trades # bt.trades =>
             /\ bt'.opened = bt.opened
             /\ bt'.openPosition = None]_vars

\* a candle closed the position, and no position was opened at that candle
\* although the analysis of the array allows an entry there
C26_Witness ==
  /\ bt.pc = "running"
  /\ Len(bt.trades) >= 1
  /\ LastTrade.exitIndex = Len(candles) - 1
  /\ bt.openPosition = None
  /\ Qualifies(candles)

BothReached(position, candle) ==
  IF position.signal = "BUY"
  THEN candle.low <= position.stopLoss /\ candle.high >= position.takeProfit
  ELSE candle.high >= position.stopLoss /\ candle.low <= position.takeProfit
NeitherReached(position, candle) ==
  IF position.signal = "BUY"
  THEN candle.low > position.stopLoss /\ candle.high < position.takeProfit
  ELSE candle.high < position.stopLoss /\ candle.low > position.takeProfit

\* C29: a candle that reaches both the stop-loss and the take-profit of the
\* open position closes it once, at the take-profit price with reason
\* TAKE_PROFIT; a candle that reaches neither leaves the position, the balance,
\* the trades and the statistics unchanged.
C29_TakeProfitWins ==
  [][(bt.openPosition # None /\ candles' # candles) =>
       LET candle == candles'[Len(candles')]
       IN /\ BothReached(bt.openPosition, candle) =>
               /\ bt'.openPosition = None
               /\ Len(bt'.trades) = Len(bt.trades) + 1
               /\ bt'.trades[Len(bt'.trades)].entryIndex = bt.openPosition.entryIndex
               /\ bt'.trades[Len(bt'.trades)].exit = bt.openPosition.takeProfit
               /\ bt'.trades[Len(bt'.trades)].reason = "TAKE_PROFIT"
          /\ NeitherReached(bt.openPosition, candle) => bt' = bt]_vars

\* the last candle reached both prices of the position it closed
C29_Witness ==
  /\ bt.pc = "running"
  /\ Len(bt.trades) >= 1
  /\ LastTrade.exitIndex = Len(candles) - 1
  /\ BothReached(LastTrade, LastCandle)
  /\ LastTrade.reason = "TAKE_PROFIT"
  /\ LastTrade.exit = LastTrade.takeProfit

\* C30: when runBacktest has returned no position is open, every opened
\* position was closed exactly once (one still open at the last candle with
\* reason END_OF_DATA, at that candle's close), stats.totalTrades =
\* trades.length = wins + losses + breakeven, and peakBalance >= balance.
C30_ClosedAndCounted ==
  /\ [](/\ bt.stats.totalTrades = Len(bt.trades)
        /\ bt.stats.totalTrades = bt.stats.wins + bt.stats.losses + bt.stats.breakeven
        /\ bt.stats.peakBalance >= bt.balance
        /\ \A i, j \in 1..Len(bt.trades) :
             i < j => bt.trades[i].exitIndex < bt.trades[j].entryIndex
        /\ bt.pc = "done" =>
             /\ bt.openPosition = None
             /\ bt.opened = Len(bt.trades))
  /\ [][(bt.pc = "running" /\ bt'.pc = "done" /\ bt.openPosition # None) =>
          /\ Len(bt'.trades) = Len(bt.trades) + 1
          /\ bt'.trades[Len(bt'.trades)].entryIndex = bt.openPosition.entryIndex
          /\ bt'.trades[Len(bt'.trades)].reason = "END_OF_DATA"
          /\ bt'.trades[Len(bt'.trades)].exit = LastCandle.close
          /\ bt'.trades[Len(bt'.trades)].exitIndex = Len(candles) - 1]_vars

\* two trades, the second closed because the data ended
C30_Witness ==
  /\ bt.pc = "done"
  /\ Len(bt.trades) = 2
  /\ LastTrade.reason = "END_OF_DATA"
  /\ bt.stats.wins + bt.stats.losses = 2

\* ========================================================================
\* Properties of MEXCClient.placeOrder
\* ========================================================================
LongSides == {"LONG", "BUY", "long"}
ShortSides == {"SHORT", "SELL", "sell"}
LimitTypes == {"LIMIT", "limit"}
\* the calls the claim names: a side that is none of LONG/BUY/SHORT/SELL, or a
\* LIMIT order without a price
Refused(a) ==
  \/ a.side \notin (LongSides \cup ShortSides)
  \/ a.type \in LimitTypes /\ a.price \in {Null, 0}

\* C25: placeOrder with a side other than LONG/BUY/SHORT/SELL (in any case),
\* or with type LIMIT and no price, returns {success: false, error} and has
\* sent no HTTP request; otherwise it sends one request whose side code is 1
\* (open long), 4 (close long), 3 (open short) or 2 (close short).
C25_InvalidOrderNotSent ==
  po.pc # "idle" =>
    IF Refused(po.args)
    THEN /\ po.pc = "returned"
         /\ po.posted = 0
         /\ po.out.success = FALSE
         /\ po.out.error \in {NotAString, InvalidSide, PriceRequired}
    ELSE /\ po.posted = 1
         /\ po.request.side =
              (IF po.args.side \in LongSides
               THEN (IF po.args.isOpen THEN 1 ELSE 4)
               ELSE (IF po.args.isOpen THEN 3 ELSE 2))

\* the call of the test: LONG, LIMIT, no price
C25_Witness ==
  /\ po.pc = "returned"
  /\ po.args.side = "LONG"
  /\ po.args.type = "LIMIT"
  /\ po.args.price = Null
  /\ po.posted = 0
  /\ po.out = OrderFailure(PriceRequired)

====
